---- MODULE Spec2Model ----
(***************************************************************************)
(* Session lifecycle and execution coordination of the agent runtime:      *)
(* the in-process SessionRegistry (registry.py), the SessionManager        *)
(* (managers/sessions.py) over the relational index and the state store    *)
(* (store/local.py), the execution coordinator (execution/coordinator.py)  *)
(* and the shutdown sequence of the application lifespan (app.py).         *)
(*                                                                         *)
(* One step of the model is one uninterrupted stretch of a task between    *)
(* two suspension points (await), or one externally visible effect of an   *)
(* I/O call (a file rename, a database commit).  A process crash may fall  *)
(* between any two steps.                                                  *)
(*                                                                         *)
(* execute_session is modelled by its control flow; the keyword arguments  *)
(* it passes to RuntimeSession and commit_session are taken to be accepted *)
(* as its callers and tests use them.                                      *)
(*                                                                         *)
(* asyncio.Event / asyncio.wait_for are modelled as: set() resolves the    *)
(* future of every suspended waiter, the waiter resumes in a later step;   *)
(* a timeout can fire only while the waiter's future is unresolved.        *)
(***************************************************************************)
EXTENDS Integers, Sequences, FiniteSets, TLC

\* ---- bounds of the model ------------------------------------------------
MaxSessions == 1      \* sessions that are created and executed
MaxIds == 2           \* session ids known to the callers of the registry
MaxCrashes == 1       \* process crashes (each followed by a restart)
MaxWaiters == 1       \* tasks other than the lifespan calling wait_until_drained
MaxToolCalls == 2     \* tool call ids of deferred tool requests
MaxWrites == 2        \* write_state calls that run step by step

Ids == 1..MaxIds
SessionIds == 1..MaxSessions
Lifespan == 0
Waiters == 0..MaxWaiters
ToolCallIds == 1..MaxToolCalls

\* "parent_session_id: str | None = None", "conversation_id: str | None = None"
NoSession == 0
NoConv == 0
\* A conversation id that is no session's id, as a fork passes it.
ForkConv == MaxIds + 1
ConvIds == Ids \cup {ForkConv}

\* ---- values ---------------------------------------------------------------
NoRow == "none"
CREATED == "created"
COMMITTED == "committed"
AWAITING_TOOL_RESULTS == "awaiting_tool_results"
FAILED == "failed"
ARCHIVED == "archived"
SessionStatus == {CREATED, COMMITTED, AWAITING_TOOL_RESULTS, FAILED, ARCHIVED}

NoState == [context_state |-> 0, message_history |-> 0, environment_state |-> 0]
\* Two context snapshots: the program stores a snapshot and hands it back
\* without looking inside, so two stand for all.
ContextStates == {1, 2}
SessionState == [context_state : ContextStates, message_history : {1}, environment_state : {0}]
NoBlob == <<>>

\* SessionState.model_dump_json: the JSON text, here the field values in
\* declaration order.
ModelDumpJson(state) ==
    <<state.context_state, state.message_history, state.environment_state>>

\* A parser that forgets the context snapshot.
ModelValidateJsonDropsContext(raw) ==
    [context_state |-> 0, message_history |-> raw[2], environment_state |-> raw[3]]

\* SessionState.model_validate_json
ModelValidateJson(raw) ==
    [context_state |-> raw[1], message_history |-> raw[2], environment_state |-> raw[3]]

VARIABLES
    status,         \* relational index: session id -> status, NoRow when absent
    conversation_id,    \* sessions.conversation_id, NoConv when the row is absent
    parent_session_id,  \* sessions.parent_session_id, NoSession for NULL
    conversations,      \* conversations table: the conversation ids that have a row
    blob,           \* state store: session id -> content of state.json, or NoBlob
    tmp,            \* state store: session id -> a staged *.tmp file exists
    sessions,       \* registry._sessions (its keys)
    streamer,       \* RuntimeSession.streamer is not None, per registered id
    interrupted,    \* streamer.interrupt() has been called, per registered id
    drain_event,    \* registry._drain_event is set
    shutting_down,  \* registry._shutting_down
    last,           \* the outcome of the last call made on the registry
    icount,         \* what the last call returned if it was interrupt_all, else 0
    wpc,            \* per waiter: position inside wait_until_drained
    wtimeout,       \* per waiter: the call was given a finite timeout
    wres,           \* per waiter: the value the last call returned
    lpc,            \* position of the application lifespan
    waitCalls,      \* wait_until_drained calls made by the shutdown sequence
    interruptCalls, \* interrupt_all calls made by the shutdown sequence
    recovered,      \* the value the last recover_orphaned_sessions call returned
    pc,             \* per session: position of its execute_session call
    exported,       \* per session: exported_state (NoState for None)
    exported_final, \* per session: exported_final ("absent" for None)
    is_deferred,    \* per session: is_deferred
    cstatus,        \* per session: status passed to commit_session
    path,           \* per session: which finalize path is being taken
    result,         \* per session: ExecutionResult.status, "none" before return
    rfinal,         \* per session: ExecutionResult.final_message, "none" before return
    rsummary,       \* per session: where ExecutionResult.run_summary comes from
    commitCalls,    \* per session: commit_session calls made by execute_session
    failCalls,      \* per session: fail_session calls made by execute_session
    wrote,          \* per session: commit_session finished its state write
    flipped,        \* per session: commit_session committed its status update
    removed,        \* per session: commit_session unregistered the session
    crashes,        \* process crashes so far
    dpc,            \* deferred results: "input" before they are built, "built" after
    dresumable,     \* deferred results: the parent state has a resumable state
    dmeta,          \* deferred results: deferred_tool_metadata, type per pending id
    dinter,         \* deferred results: user_interactions, decision per id
    dtools,         \* deferred results: tool_results, kind of result per id
    dres,           \* deferred results: the object handed to stream_agent
    cpc,            \* create_session call: position, or how the last call ended
    csid,           \* create_session call: session_id
    cparent,        \* create_session call: the parent_session_id argument
    cexplicit,      \* create_session call: the conversation_id argument
    cconv,          \* create_session call: conversation_id once resolved
    cpending,       \* create_session call: a ConversationRow was added to the session
    requested_conv, \* per session row: the conversation_id argument it was created with
    cfgpc,          \* resolve_config: "input" before the call, "resolved" after
    cfgIn,          \* resolve_config: the arguments, the preset and the override
    cfgOut,         \* resolve_config: the ResolvedConfig returned or the error raised
    files,          \* LocalStateStore: session directory -> its state.json and *.tmp files
    objects,        \* S3StateStore: object key -> body of the object
    spc,            \* per write_state call: its position
    sarg,           \* per write_state call: backend, prefix, session id and state
    sout,           \* what the last finished store call returned, per backend
    expect,         \* per prefix and id: the state last written since the last delete
    published,      \* per backend, prefix and id: the states whose write returned
    presets,        \* presets table as committed: preset id -> "absent", or its is_default
    ppc,            \* per preset call: its position
    parg,           \* per preset call: operation, preset id, is_default asked, value loaded
    psnap,          \* per preset call: rows its bulk UPDATE selected
    plocks,         \* per preset call: rows its bulk UPDATE changed, not yet committed
    session_rows,   \* sessions table in created_at order: session id, conversation, status
    display_messages,   \* state store: session id -> its display_messages.json
    turns           \* what the last get_conversation_turns returned, and for which conversation

convVars == <<conversation_id, parent_session_id, conversations>>
dbVars == <<status, convVars>>
storeVars == <<blob, tmp>>
regVars == <<sessions, streamer, interrupted, drain_event, shutting_down, last, icount>>
waitVars == <<wpc, wtimeout, wres>>
lifeVars == <<lpc, waitCalls, interruptCalls, recovered>>
execVars == <<pc, exported, exported_final, is_deferred, cstatus, path, result, rfinal, rsummary>>
callVars == <<commitCalls, failCalls>>
histVars == <<wrote, flipped, removed>>
fnVars == <<dpc, dresumable, dmeta, dinter, dtools, dres>>
createVars == <<cpc, csid, cparent, cexplicit, cconv, cpending, requested_conv>>
resolverVars == <<cfgpc, cfgIn, cfgOut>>
stVars == <<files, objects, spc, sarg, sout, expect, published>>
presetVars == <<presets, ppc, parg, psnap, plocks>>
turnVars == <<session_rows, display_messages, turns>>
apiVars == <<presetVars, turnVars>>
vars == <<dbVars, storeVars, regVars, waitVars, lifeVars, execVars, callVars, histVars, crashes, fnVars, resolverVars,
          createVars, stVars, apiVars>>

\* ---- SessionRegistry ------------------------------------------------------

\* SessionRegistry.__init__
RegistryInit ==
    /\ sessions = {}
    /\ streamer = [i \in Ids |-> FALSE]
    /\ interrupted = [i \in Ids |-> FALSE]
    /\ drain_event = TRUE
    /\ shutting_down = FALSE
    /\ last = "init"
    /\ icount = 0

\* asyncio.Event.set: every suspended waiter's future is resolved.
Wake(w) == [x \in Waiters |-> IF w[x] = "waiting" THEN "woken" ELSE w[x]]

\* A register that does not look at the shutdown flag.
RegisterRefusedNever(sd) == FALSE

\* register: "if self._shutting_down: raise ShuttingDownError"
RegisterRefused(sd) == sd

\* An unregister that forgets to set the event.
DrainAfterUnregisterNever(remaining, drained) == drained

\* An unregister that sets the event whatever is left.
DrainAfterUnregisterAlways(remaining, drained) == TRUE

\* unregister: "if not self._sessions: self._drain_event.set()"
DrainAfterUnregister(remaining, drained) ==
    IF remaining = {} THEN TRUE ELSE drained

\* SessionRegistry.register(RuntimeSession(session_id=id, streamer=st))
register(id, st) ==
    IF RegisterRefused(shutting_down)
    THEN /\ last' = "refused"
         /\ icount' = 0
         /\ UNCHANGED <<sessions, streamer, interrupted, drain_event, shutting_down>>
    ELSE /\ sessions' = sessions \cup {id}
         /\ streamer' = [streamer EXCEPT ![id] = st]
         /\ interrupted' = [interrupted EXCEPT ![id] = FALSE]
         /\ drain_event' = FALSE
         /\ last' = "register"
         /\ icount' = 0
         /\ UNCHANGED shutting_down

\* SessionRegistry.unregister(id); the waiters' futures are part of the event.
unregister(id) ==
    /\ sessions' = sessions \ {id}
    /\ streamer' = [streamer EXCEPT ![id] = FALSE]
    /\ interrupted' = [interrupted EXCEPT ![id] = FALSE]
    /\ drain_event' = DrainAfterUnregister(sessions \ {id}, drain_event)
    /\ wpc' = IF drain_event' /\ ~drain_event THEN Wake(wpc) ELSE wpc
    /\ last' = IF id \in sessions THEN "unregister" ELSE "unregister_unknown"
    /\ icount' = 0
    /\ UNCHANGED shutting_down

\* An interrupt_all that signals every registered session.
InterruptTargetsEveryone == sessions

\* SessionRegistry.interrupt_all: the sessions it signals
InterruptTargets == {i \in sessions : streamer[i]}

\* SessionRegistry.interrupt_all: streamer.interrupt() on each target, and
\* the count it returns.
interrupt_all ==
    /\ interrupted' = [i \in Ids |-> interrupted[i] \/ i \in InterruptTargets]
    /\ icount' = Cardinality(InterruptTargets)

\* SessionRegistry.begin_shutdown, without the waiters it may wake
begin_shutdown ==
    /\ shutting_down' = TRUE
    /\ drain_event' = IF sessions = {} THEN TRUE ELSE drain_event
    /\ last' = "begin_shutdown"
    /\ icount' = 0
    /\ UNCHANGED <<sessions, streamer, interrupted>>

\* wait_until_drained up to its first suspension point: the position the
\* caller is left in.  "returned" is the early return of an empty registry;
\* an event that is already set resolves the wait without a timeout.
WaitEntry ==
    IF sessions = {} THEN "returned"
    ELSE IF drain_event THEN "woken" ELSE "waiting"

\* What wait_until_drained returns from a position it resumes in:
\* the else branch (True) or the TimeoutError branch (False).
WaitResult(p) == p # "timedout"

\* ---- direct calls on the registry (any caller) ----------------------------

\* registry.register(session)
Register(id, st) ==
    /\ register(id, st)
    /\ UNCHANGED <<dbVars, storeVars, waitVars, lifeVars, execVars, callVars, histVars, crashes, fnVars, apiVars, resolverVars, stVars, createVars>>

\* registry.unregister(session_id), for a registered or an unknown id
Unregister(id) ==
    /\ unregister(id)
    /\ UNCHANGED <<wtimeout, wres>>
    /\ UNCHANGED <<dbVars, storeVars, lifeVars, execVars, callVars, histVars, crashes, fnVars, apiVars, resolverVars, stVars, createVars>>

\* registry.begin_shutdown()
BeginShutdown ==
    /\ ~shutting_down
    /\ begin_shutdown
    /\ UNCHANGED <<dbVars, storeVars, waitVars, lifeVars, execVars, callVars, histVars, crashes, fnVars, apiVars, resolverVars, stVars, createVars>>

\* registry.interrupt_all(), e.g. from an /interrupt request
InterruptAll ==
    /\ interrupt_all
    /\ last' = "interrupt_all"
    /\ UNCHANGED <<sessions, streamer, drain_event, shutting_down>>
    /\ UNCHANGED <<dbVars, storeVars, waitVars, lifeVars, execVars, callVars, histVars, crashes, fnVars, apiVars, resolverVars, stVars, createVars>>

\* An /interrupt request arrives while some session with a streamer has not
\* been signalled yet.
InterruptRequest ==
    /\ \E i \in InterruptTargets : ~interrupted[i]
    /\ InterruptAll

\* A task other than the lifespan calls wait_until_drained(timeout):
\* to says whether the timeout is finite.
WaitCall(w, to) ==
    /\ w # Lifespan
    /\ wpc[w] \in {"idle", "returned"}
    /\ wpc' = [wpc EXCEPT ![w] = WaitEntry]
    /\ wtimeout' = [wtimeout EXCEPT ![w] = to /\ WaitEntry = "waiting"]
    /\ wres' = [wres EXCEPT ![w] = IF WaitEntry = "returned" THEN TRUE ELSE FALSE]
    /\ UNCHANGED <<dbVars, storeVars, regVars, lifeVars, execVars, callVars, histVars, crashes, fnVars, apiVars, resolverVars, stVars, createVars>>

\* The timeout of wait_for elapses while the event is still unset.
WaitTimeout(w) ==
    /\ wpc[w] = "waiting"
    /\ wtimeout[w]
    /\ wpc' = [wpc EXCEPT ![w] = "timedout"]
    /\ UNCHANGED <<wtimeout, wres>>
    /\ UNCHANGED <<dbVars, storeVars, regVars, lifeVars, execVars, callVars, histVars, crashes, fnVars, apiVars, resolverVars, stVars, createVars>>

\* The suspended task resumes and wait_until_drained returns.
WaitReturn(w) ==
    /\ w # Lifespan
    /\ wpc[w] \in {"woken", "timedout"}
    /\ wres' = [wres EXCEPT ![w] = WaitResult(wpc[w])]
    /\ wpc' = [wpc EXCEPT ![w] = "returned"]
    /\ wtimeout' = [wtimeout EXCEPT ![w] = FALSE]
    /\ UNCHANGED <<dbVars, storeVars, regVars, lifeVars, execVars, callVars, histVars, crashes, fnVars, apiVars, resolverVars, stVars, createVars>>

\* ---- application lifespan --------------------------------------------------

\* A recovery that fails every row it finds.
RecoveredStatusEveryRow(s) == IF s = NoRow THEN NoRow ELSE FAILED

\* recover_orphaned_sessions: one UPDATE ... WHERE status = created
RecoveredStatus(s) == IF s = CREATED THEN FAILED ELSE s

\* recover_orphaned_sessions: result.rowcount, the rows the UPDATE matched
RecoveredCount == Cardinality({i \in Ids : status[i] = CREATED})

\* lifespan startup: recover_orphaned_sessions, then serve
Startup ==
    /\ lpc = "starting"
    /\ status' = [i \in Ids |-> RecoveredStatus(status[i])]
    /\ lpc' = "serving"
    /\ recovered' = RecoveredCount
    /\ UNCHANGED <<waitCalls, interruptCalls>>
    /\ UNCHANGED <<convVars, storeVars, regVars, waitVars, execVars, callVars, histVars, crashes, fnVars, apiVars, resolverVars, stVars, createVars>>

\* wait_until_drained(timeout=settings.graceful_shutdown_timeout): an int,
\* so the first wait is bounded.
DrainWaitBounded == TRUE

\* A re-wait that passes no timeout.
RewaitUnbounded == FALSE

\* wait_until_drained(timeout=5.0): the re-wait is bounded.
RewaitBounded == TRUE

\* lifespan shutdown, steps 1 and 2 up to the first wait:
\* begin_shutdown(); if active_count > 0: wait_until_drained(timeout)
ShutdownBegin ==
    /\ lpc = "serving"
    /\ begin_shutdown
    /\ IF sessions # {}
       THEN /\ wpc' = [wpc EXCEPT ![Lifespan] = WaitEntry]
            /\ wtimeout' = [wtimeout EXCEPT ![Lifespan] = DrainWaitBounded /\ WaitEntry = "waiting"]
            /\ waitCalls' = waitCalls + 1
            /\ lpc' = "wait1"
       ELSE /\ lpc' = "teardown"
            /\ UNCHANGED <<wpc, wtimeout, waitCalls>>
    /\ UNCHANGED <<wres, interruptCalls, recovered>>
    /\ UNCHANGED <<dbVars, storeVars, execVars, callVars, histVars, crashes, fnVars, apiVars, resolverVars, stVars, createVars>>

\* The first wait returns.  Drained: teardown.  Timed out: interrupt_all()
\* and wait_until_drained(timeout=5.0), up to its suspension point.
ShutdownAfterWait ==
    /\ lpc = "wait1"
    /\ wpc[Lifespan] \in {"woken", "timedout", "returned"}
    /\ wres' = [wres EXCEPT ![Lifespan] = WaitResult(wpc[Lifespan])]
    /\ IF WaitResult(wpc[Lifespan])
       THEN /\ lpc' = "teardown"
            /\ wpc' = [wpc EXCEPT ![Lifespan] = "idle"]
            /\ wtimeout' = [wtimeout EXCEPT ![Lifespan] = FALSE]
            /\ UNCHANGED <<interrupted, last, icount, waitCalls, interruptCalls>>
       ELSE /\ interrupt_all
            /\ last' = "interrupt_all"
            /\ interruptCalls' = interruptCalls + 1
            /\ waitCalls' = waitCalls + 1
            /\ wpc' = [wpc EXCEPT ![Lifespan] = WaitEntry]
            /\ wtimeout' = [wtimeout EXCEPT ![Lifespan] = RewaitBounded /\ WaitEntry = "waiting"]
            /\ lpc' = "wait2"
    /\ UNCHANGED <<sessions, streamer, drain_event, shutting_down, recovered>>
    /\ UNCHANGED <<dbVars, storeVars, execVars, callVars, histVars, crashes, fnVars, apiVars, resolverVars, stVars, createVars>>

\* The re-wait returns; its result is not looked at.  Teardown follows.
ShutdownAfterRewait ==
    /\ lpc = "wait2"
    /\ wpc[Lifespan] \in {"woken", "timedout", "returned"}
    /\ wres' = [wres EXCEPT ![Lifespan] = WaitResult(wpc[Lifespan])]
    /\ wpc' = [wpc EXCEPT ![Lifespan] = "idle"]
    /\ wtimeout' = [wtimeout EXCEPT ![Lifespan] = FALSE]
    /\ lpc' = "teardown"
    /\ UNCHANGED <<waitCalls, interruptCalls, recovered>>
    /\ UNCHANGED <<dbVars, storeVars, regVars, execVars, callVars, histVars, crashes, fnVars, apiVars, resolverVars, stVars, createVars>>

\* ---- SessionManager.create_session ----------------------------------------

\* uuid4 hands out an id no row has yet; ids are taken in order.
FreshId(id) ==
    /\ pc[id] = "none"
    /\ \A j \in SessionIds : j < id => pc[j] # "none"

\* A resolution that treats every session without an explicit id as a root.
ResolveConversationAsRoot(sid, parent, explicit) ==
    IF explicit = NoConv THEN sid ELSE explicit

\* "Resolve conversation_id based on lineage rules": the parent's for a
\* continuation, the session's own id for a root, else the one passed.
ResolveConversation(sid, parent, explicit) ==
    IF parent # NoSession /\ explicit = NoConv
    THEN conversation_id[parent]
    ELSE IF explicit = NoConv THEN sid ELSE explicit

\* A database that keeps the conversation insert of a failed transaction.
PersistedConversationsEagerly(ok) ==
    conversations \cup (IF cpending THEN {cconv} ELSE {})

\* The conversations table after db.commit: the pending ConversationRow is
\* inserted in the transaction of the session row, and rolled back with it.
PersistedConversations(ok) ==
    IF ok THEN conversations \cup (IF cpending THEN {cconv} ELSE {}) ELSE conversations

\* fk_sessions_parent_session_id: a non-NULL parent_session_id names a row.
ParentKeyHolds(parent) == parent = NoSession \/ status[parent] # NoRow

\* create_session of a root session by the API layer, as one step: the
\* conversation row and the session row (status created) in one db.commit.
CreateSession(id) ==
    /\ lpc = "serving"
    /\ FreshId(id)
    /\ status' = [status EXCEPT ![id] = CREATED]
    /\ conversation_id' = [conversation_id EXCEPT ![id] = ResolveConversation(id, NoSession, NoConv)]
    /\ parent_session_id' = [parent_session_id EXCEPT ![id] = NoSession]
    /\ conversations' = conversations \cup {ResolveConversation(id, NoSession, NoConv)}
    /\ requested_conv' = [requested_conv EXCEPT ![id] = NoConv]
    /\ UNCHANGED <<cpc, csid, cparent, cexplicit, cconv, cpending>>
    /\ pc' = [pc EXCEPT ![id] = "created"]
    /\ UNCHANGED <<exported, exported_final, is_deferred, cstatus, path, result, rfinal, rsummary>>
    /\ UNCHANGED <<storeVars, regVars, waitVars, lifeVars, callVars, histVars, crashes, fnVars, apiVars, resolverVars, stVars>>

\* ---- create_session, step by step ------------------------------------------

\* A call is made: "session_id = uuid.uuid4().hex" is an id no row has and
\* that the caller could not have named as the parent.
CreateBegin(parent, explicit) ==
    /\ cpc \in {"idle", "returned", "raised"}
    /\ \E sid \in Ids :
        /\ status[sid] = NoRow
        /\ sid # parent
        /\ csid' = sid
    /\ cparent' = parent
    /\ cexplicit' = explicit
    /\ cconv' = NoConv
    /\ cpending' = FALSE
    /\ cpc' = "resolve"
    /\ UNCHANGED <<dbVars, storeVars, regVars, waitVars, lifeVars, execVars, callVars, histVars, crashes,
                   fnVars, apiVars, resolverVars, stVars, requested_conv>>

\* The lineage rules; "if parent is None: raise ValueError" for a
\* continuation whose parent has no row.
CreateResolve ==
    /\ cpc = "resolve"
    /\ IF cparent # NoSession /\ cexplicit = NoConv /\ status[cparent] = NoRow
       THEN /\ cpc' = "raised"
            /\ UNCHANGED cconv
       ELSE /\ cconv' = ResolveConversation(csid, cparent, cexplicit)
            /\ cpc' = "lookup"
    /\ UNCHANGED <<dbVars, storeVars, regVars, waitVars, lifeVars, execVars, callVars, histVars, crashes,
                   fnVars, apiVars, resolverVars, stVars, csid, cparent, cexplicit, cpending, requested_conv>>

\* "existing_conv = await db.get(ConversationRow, conversation_id)", db.add of
\* a ConversationRow if there is none, db.add of the SessionRow.
CreateLookup ==
    /\ cpc = "lookup"
    /\ cpending' = (cconv \notin conversations)
    /\ cpc' = "commit"
    /\ UNCHANGED <<dbVars, storeVars, regVars, waitVars, lifeVars, execVars, callVars, histVars, crashes,
                   fnVars, apiVars, resolverVars, stVars, csid, cparent, cexplicit, cconv, requested_conv>>

\* "await db.commit()": one transaction inserts the pending rows; it is rolled
\* back when the database fails or the parent foreign key is violated.
CreateCommit(dbok) ==
    /\ cpc = "commit"
    /\ conversations' = PersistedConversations(dbok /\ ParentKeyHolds(cparent))
    /\ IF dbok /\ ParentKeyHolds(cparent)
       THEN /\ status' = [status EXCEPT ![csid] = CREATED]
            /\ conversation_id' = [conversation_id EXCEPT ![csid] = cconv]
            /\ parent_session_id' = [parent_session_id EXCEPT ![csid] = cparent]
            /\ requested_conv' = [requested_conv EXCEPT ![csid] = cexplicit]
            /\ cpc' = "refresh"
       ELSE /\ cpc' = "raised"
            /\ UNCHANGED <<status, conversation_id, parent_session_id, requested_conv>>
    /\ UNCHANGED <<storeVars, regVars, waitVars, lifeVars, execVars, callVars, histVars, crashes,
                   fnVars, apiVars, resolverVars, stVars, csid, cparent, cexplicit, cconv, cpending>>

\* "await db.refresh(session_row)" and the return of the row.
CreateRefresh(dbok) ==
    /\ cpc = "refresh"
    /\ cpc' = IF dbok THEN "returned" ELSE "raised"
    /\ UNCHANGED <<dbVars, storeVars, regVars, waitVars, lifeVars, execVars, callVars, histVars, crashes,
                   fnVars, apiVars, resolverVars, stVars, csid, cparent, cexplicit, cconv, cpending, requested_conv>>

\* ---- execute_session: setup and run ---------------------------------------

\* An execute_session whose setup runs inside the try block.
SetupFailureFailsSession == "f_update"

\* The setup statements stand before the try block: what they raise leaves
\* execute_session.
SetupFailureNext == "raised"

\* Restoring the parent state, creating the runtime or mapping the input
\* raises: the exception leaves execute_session before anything is registered.
ExecSetupFails(id) ==
    /\ pc[id] = "created"
    /\ pc' = [pc EXCEPT ![id] = SetupFailureNext]
    /\ UNCHANGED <<exported, exported_final, is_deferred, cstatus, path, result, rfinal, rsummary>>
    /\ UNCHANGED <<dbVars, storeVars, regVars, waitVars, lifeVars, callVars, histVars, crashes, fnVars, apiVars, resolverVars, stVars, createVars>>

\* registry.register(runtime_session); the streamer is not assigned yet.
\* A refusal (ShuttingDownError) leaves execute_session.
ExecRegister(id) ==
    /\ pc[id] = "created"
    /\ register(id, FALSE)
    /\ pc' = [pc EXCEPT ![id] = IF RegisterRefused(shutting_down) THEN "raised" ELSE "registered"]
    /\ UNCHANGED <<exported, exported_final, is_deferred, cstatus, path, result, rfinal, rsummary>>
    /\ UNCHANGED <<dbVars, storeVars, waitVars, lifeVars, callVars, histVars, crashes, fnVars, apiVars, resolverVars, stVars, createVars>>

\* An execute_session without its "except Exception" branch.
RunFailureEscapes == "raised"

\* "except Exception: ... await session_manager.fail_session(db, session_id)"
RunFailureNext == "f_update"

\* "async with stream_agent(...) as streamer: runtime_session.streamer = streamer",
\* or stream_agent raises and the error path calls fail_session.
ExecEnterStream(id) ==
    /\ pc[id] = "registered"
    /\ \E ok \in BOOLEAN :
        IF ok
        THEN /\ streamer' = [streamer EXCEPT ![id] = TRUE]
             /\ pc' = [pc EXCEPT ![id] = "running"]
             /\ UNCHANGED <<path, failCalls>>
        ELSE /\ pc' = [pc EXCEPT ![id] = RunFailureNext]
             /\ path' = [path EXCEPT ![id] = "error"]
             /\ failCalls' = [failCalls EXCEPT ![id] = @ + 1]
             /\ UNCHANGED streamer
    /\ UNCHANGED <<sessions, interrupted, drain_event, shutting_down, last, icount>>
    /\ UNCHANGED <<exported, exported_final, is_deferred, cstatus, result, rfinal, rsummary>>
    /\ UNCHANGED <<dbVars, storeVars, waitVars, lifeVars, commitCalls, histVars, crashes, fnVars, apiVars, resolverVars, stVars, createVars>>

\* What _get_output can return: None, a DeferredToolRequests, anything else.
Outputs == {"none", "deferred", "text"}

\* _extract_final_message: None for no output and for a deferred request
ExtractFinalMessage(out) == IF out \in {"none", "deferred"} THEN "absent" ELSE "text"

\* _check_deferred: isinstance(output, DeferredToolRequests)
CheckDeferred(out) == out = "deferred"

\* The event loop ends and the state is exported inside the context manager.
ExecRunCompletes(id, st, out) ==
    /\ pc[id] = "running"
    /\ exported_final' = [exported_final EXCEPT ![id] = ExtractFinalMessage(out)]
    /\ exported' = [exported EXCEPT ![id] = st]
    /\ is_deferred' = [is_deferred EXCEPT ![id] = CheckDeferred(out)]
    /\ pc' = [pc EXCEPT ![id] = "exported"]
    /\ UNCHANGED <<cstatus, path, result, rfinal, rsummary>>
    /\ UNCHANGED <<dbVars, storeVars, regVars, waitVars, lifeVars, callVars, histVars, crashes, fnVars, apiVars, resolverVars, stVars, createVars>>

\* "async for event in streamer: if on_event: await on_event(event)": with a
\* sink attached the loop awaits the sink before it takes the next event.
ExecDeliverEvent(id) ==
    /\ pc[id] = "running"
    /\ pc' = [pc EXCEPT ![id] = "sink_wait"]
    /\ UNCHANGED <<exported, exported_final, is_deferred, cstatus, path, result, rfinal, rsummary>>
    /\ UNCHANGED <<dbVars, storeVars, regVars, waitVars, lifeVars, callVars, histVars, crashes, fnVars, apiVars, resolverVars, stVars, createVars>>

\* on_event returns: the loop goes on to the next event.
ExecSinkReturns(id) ==
    /\ pc[id] = "sink_wait"
    /\ pc' = [pc EXCEPT ![id] = "running"]
    /\ UNCHANGED <<exported, exported_final, is_deferred, cstatus, path, result, rfinal, rsummary>>
    /\ UNCHANGED <<dbVars, storeVars, regVars, waitVars, lifeVars, callVars, histVars, crashes, fnVars, apiVars, resolverVars, stVars, createVars>>

\* on_event raises inside the try: except Exception, fail_session.
ExecSinkRaises(id) ==
    /\ pc[id] = "sink_wait"
    /\ pc' = [pc EXCEPT ![id] = RunFailureNext]
    /\ path' = [path EXCEPT ![id] = "sink_error"]
    /\ failCalls' = [failCalls EXCEPT ![id] = @ + 1]
    /\ UNCHANGED <<exported, exported_final, is_deferred, cstatus, result, rfinal, rsummary>>
    /\ UNCHANGED <<dbVars, storeVars, regVars, waitVars, lifeVars, commitCalls, histVars, crashes, fnVars, apiVars, resolverVars, stVars, createVars>>

\* The run or the export raises: except Exception, fail_session.
ExecRunFails(id) ==
    /\ pc[id] = "running"
    /\ pc' = [pc EXCEPT ![id] = RunFailureNext]
    /\ path' = [path EXCEPT ![id] = "error"]
    /\ failCalls' = [failCalls EXCEPT ![id] = @ + 1]
    /\ UNCHANGED <<exported, exported_final, is_deferred, cstatus, result, rfinal, rsummary>>
    /\ UNCHANGED <<dbVars, storeVars, regVars, waitVars, lifeVars, commitCalls, histVars, crashes, fnVars, apiVars, resolverVars, stVars, createVars>>

\* AgentInterrupted before any export: _handle_interrupt with
\* exported_state None calls fail_session.
ExecInterruptedEarly(id) ==
    /\ pc[id] = "running"
    /\ interrupted[id]
    /\ pc' = [pc EXCEPT ![id] = "f_update"]
    /\ path' = [path EXCEPT ![id] = "interrupt"]
    /\ failCalls' = [failCalls EXCEPT ![id] = @ + 1]
    /\ UNCHANGED <<exported, exported_final, is_deferred, cstatus, result, rfinal, rsummary>>
    /\ UNCHANGED <<dbVars, storeVars, regVars, waitVars, lifeVars, commitCalls, histVars, crashes, fnVars, apiVars, resolverVars, stVars, createVars>>

\* A commit_session without its status check.
CommitAcceptsAnyStatus(s) == TRUE

\* commit_session: "if status not in (COMMITTED, AWAITING_TOOL_RESULTS): raise"
CommitAccepts(s) == s \in {COMMITTED, AWAITING_TOOL_RESULTS}

\* A coordinator that commits every completed run as committed.
NormalStatusAlwaysCommitted(d) == COMMITTED

\* The status execute_session commits with on normal completion
NormalStatus(d) == IF d THEN AWAITING_TOOL_RESULTS ELSE COMMITTED

\* commit_session's steps in a wrong order: the row is flipped first.
CommitStepAfterFlipFirst(step) ==
    CASE step = "c_enter" -> "c_update"
      [] step = "c_update" -> "c_dbcommit"
      [] step = "c_dbcommit" -> "c_write"
      [] step = "c_write" -> "c_rename"
      [] step = "c_rename" -> "c_unreg"
      [] step = "c_unreg" -> "c_read"
      [] step = "c_read" -> "c_returned"

\* commit_session's steps in a wrong order: unregistered before the update.
CommitStepAfterUnregisterFirst(step) ==
    CASE step = "c_enter" -> "c_write"
      [] step = "c_write" -> "c_rename"
      [] step = "c_rename" -> "c_unreg"
      [] step = "c_unreg" -> "c_update"
      [] step = "c_update" -> "c_dbcommit"
      [] step = "c_dbcommit" -> "c_read"
      [] step = "c_read" -> "c_returned"

\* commit_session's steps in program order: _atomic_write (stage, rename),
\* db.execute(update), db.commit(), registry.unregister, db.get, return.
CommitStepAfter(step) ==
    CASE step = "c_enter" -> "c_write"
      [] step = "c_write" -> "c_rename"
      [] step = "c_rename" -> "c_update"
      [] step = "c_update" -> "c_dbcommit"
      [] step = "c_dbcommit" -> "c_unreg"
      [] step = "c_unreg" -> "c_read"
      [] step = "c_read" -> "c_returned"

\* The position a commit_session call starts in
CommitEntry(s) == IF CommitAccepts(s) THEN CommitStepAfter("c_enter") ELSE "c_raised"

\* The context manager exits.  Without AgentInterrupted: commit_session with
\* the status of the outcome.  With it (only after an interrupt signal):
\* _handle_interrupt commits the export with status COMMITTED.
ExecExitStream(id) ==
    /\ pc[id] = "exported"
    /\ \E intr \in {FALSE, interrupted[id]} :
        /\ path' = [path EXCEPT ![id] = IF intr THEN "interrupt" ELSE "normal"]
        /\ cstatus' = [cstatus EXCEPT ![id] =
                          IF intr THEN COMMITTED ELSE NormalStatus(is_deferred[id])]
    /\ pc' = [pc EXCEPT ![id] = CommitEntry(cstatus'[id])]
    /\ commitCalls' = [commitCalls EXCEPT ![id] = @ + 1]
    /\ UNCHANGED <<exported, exported_final, is_deferred, result, rfinal, rsummary>>
    /\ UNCHANGED <<dbVars, storeVars, regVars, waitVars, lifeVars, failCalls, histVars, crashes, fnVars, apiVars, resolverVars, stVars, createVars>>

\* ---- SessionManager.commit_session ----------------------------------------

\* _atomic_write: mkstemp and write of the temporary file; on failure the
\* temporary file is unlinked and the error raised.
CommitStage(id) ==
    /\ pc[id] = "c_write"
    /\ \E ok \in BOOLEAN :
        IF ok
        THEN /\ tmp' = [tmp EXCEPT ![id] = TRUE]
             /\ pc' = [pc EXCEPT ![id] = CommitStepAfter("c_write")]
        ELSE /\ pc' = [pc EXCEPT ![id] = "c_raised"]
             /\ UNCHANGED tmp
    /\ UNCHANGED <<blob, exported, exported_final, is_deferred, cstatus, path, result, rfinal, rsummary>>
    /\ UNCHANGED <<dbVars, regVars, waitVars, lifeVars, callVars, histVars, crashes, fnVars, apiVars, resolverVars, stVars, createVars>>

\* _atomic_write: os.rename publishes state.json; on failure the temporary
\* file is unlinked and the error raised.
CommitRename(id) ==
    /\ pc[id] = "c_rename"
    /\ tmp' = [tmp EXCEPT ![id] = FALSE]
    /\ \E ok \in BOOLEAN :
        IF ok
        THEN /\ blob' = [blob EXCEPT ![id] = ModelDumpJson(exported[id])]
             /\ wrote' = [wrote EXCEPT ![id] = TRUE]
             /\ pc' = [pc EXCEPT ![id] = CommitStepAfter("c_rename")]
        ELSE /\ pc' = [pc EXCEPT ![id] = "c_raised"]
             /\ UNCHANGED <<blob, wrote>>
    /\ UNCHANGED <<flipped, removed>>
    /\ UNCHANGED <<exported, exported_final, is_deferred, cstatus, path, result, rfinal, rsummary>>
    /\ UNCHANGED <<dbVars, regVars, waitVars, lifeVars, callVars, crashes, fnVars, apiVars, resolverVars, stVars, createVars>>

\* db.execute(update(...).values(status=status)): nothing is visible yet.
CommitUpdate(id) ==
    /\ pc[id] = "c_update"
    /\ \E ok \in BOOLEAN :
        pc' = [pc EXCEPT ![id] = IF ok THEN CommitStepAfter("c_update") ELSE "c_raised"]
    /\ UNCHANGED <<exported, exported_final, is_deferred, cstatus, path, result, rfinal, rsummary>>
    /\ UNCHANGED <<dbVars, storeVars, regVars, waitVars, lifeVars, callVars, histVars, crashes, fnVars, apiVars, resolverVars, stVars, createVars>>

\* db.commit(): the row's status becomes the status passed, or the commit
\* raises and the update is lost.
CommitDbCommit(id) ==
    /\ pc[id] = "c_dbcommit"
    /\ \E ok \in BOOLEAN :
        IF ok
        THEN /\ status' = [status EXCEPT ![id] = cstatus[id]]
             /\ flipped' = [flipped EXCEPT ![id] = TRUE]
             /\ pc' = [pc EXCEPT ![id] = CommitStepAfter("c_dbcommit")]
        ELSE /\ pc' = [pc EXCEPT ![id] = "c_raised"]
             /\ UNCHANGED <<status, flipped>>
    /\ UNCHANGED <<wrote, removed>>
    /\ UNCHANGED <<exported, exported_final, is_deferred, cstatus, path, result, rfinal, rsummary>>
    /\ UNCHANGED <<convVars, storeVars, regVars, waitVars, lifeVars, callVars, crashes, fnVars, apiVars, resolverVars, stVars, createVars>>

\* self._registry.unregister(session_id)
CommitUnregister(id) ==
    /\ pc[id] = "c_unreg"
    /\ unregister(id)
    /\ removed' = [removed EXCEPT ![id] = TRUE]
    /\ pc' = [pc EXCEPT ![id] = CommitStepAfter("c_unreg")]
    /\ UNCHANGED <<wtimeout, wres, wrote, flipped>>
    /\ UNCHANGED <<exported, exported_final, is_deferred, cstatus, path, result, rfinal, rsummary>>
    /\ UNCHANGED <<dbVars, storeVars, lifeVars, callVars, crashes, fnVars, apiVars, resolverVars, stVars, createVars>>

\* row = await db.get(SessionRow, session_id); return row -- or db.get raises.
CommitRead(id) ==
    /\ pc[id] = "c_read"
    /\ \E ok \in BOOLEAN :
        pc' = [pc EXCEPT ![id] = IF ok THEN CommitStepAfter("c_read") ELSE "c_raised"]
    /\ UNCHANGED <<exported, exported_final, is_deferred, cstatus, path, result, rfinal, rsummary>>
    /\ UNCHANGED <<dbVars, storeVars, regVars, waitVars, lifeVars, callVars, histVars, crashes, fnVars, apiVars, resolverVars, stVars, createVars>>

\* ---- execute_session: after commit_session ---------------------------------

\* A coordinator that also fails the session after a commit that returned.
AfterCommitReturnFails(p) == "f_update"

\* commit_session returned: execute_session (or _handle_interrupt) returns.
AfterCommitReturn(p) == "done"

\* An ExecutionResult that always reports committed.
CommittedResultAlwaysCommitted(p, s) == COMMITTED

\* The status of the ExecutionResult after a commit that returned
CommittedResult(p, s) == IF p = "interrupt" THEN COMMITTED ELSE s

ExecCommitReturned(id) ==
    /\ pc[id] = "c_returned"
    /\ result' = [result EXCEPT ![id] = CommittedResult(path[id], cstatus[id])]
    /\ pc' = [pc EXCEPT ![id] = AfterCommitReturn(path[id])]
    /\ rfinal' = [rfinal EXCEPT ![id] = exported_final[id]]
    /\ rsummary' = [rsummary EXCEPT ![id] = "exported"]
    /\ UNCHANGED <<exported, exported_final, is_deferred, cstatus, path>>
    /\ UNCHANGED <<dbVars, storeVars, regVars, waitVars, lifeVars, callVars, histVars, crashes, fnVars, apiVars, resolverVars, stVars, createVars>>

\* commit_session raised: "except Exception" of execute_session, or of
\* _handle_interrupt, calls fail_session.
ExecCommitRaised(id) ==
    /\ pc[id] = "c_raised"
    /\ pc' = [pc EXCEPT ![id] = "f_update"]
    /\ path' = [path EXCEPT ![id] = IF path[id] = "interrupt" THEN "interrupt_failed" ELSE "commit_failed"]
    /\ failCalls' = [failCalls EXCEPT ![id] = @ + 1]
    /\ UNCHANGED <<exported, exported_final, is_deferred, cstatus, result, rfinal, rsummary>>
    /\ UNCHANGED <<dbVars, storeVars, regVars, waitVars, lifeVars, commitCalls, histVars, crashes, fnVars, apiVars, resolverVars, stVars, createVars>>

\* ---- SessionManager.fail_session -------------------------------------------

\* fail_session's steps in a wrong order: unregistered before db.commit.
FailStepAfterUnregisterFirst(step) ==
    CASE step = "f_update" -> "f_unreg"
      [] step = "f_unreg" -> "f_dbcommit"
      [] step = "f_dbcommit" -> "done"

\* A fail_session that unregisters but never commits its update.
FailStepAfterWithoutCommit(step) ==
    CASE step = "f_update" -> "f_unreg"
      [] step = "f_dbcommit" -> "f_unreg"
      [] step = "f_unreg" -> "done"

\* fail_session's steps in program order: db.execute(update), db.commit(),
\* registry.unregister, return.
FailStepAfter(step) ==
    CASE step = "f_update" -> "f_dbcommit"
      [] step = "f_dbcommit" -> "f_unreg"
      [] step = "f_unreg" -> "done"

\* db.execute(update(...).values(status=FAILED)); an exception leaves
\* execute_session.
FailUpdate(id) ==
    /\ pc[id] = "f_update"
    /\ \E ok \in BOOLEAN :
        pc' = [pc EXCEPT ![id] = IF ok THEN FailStepAfter("f_update") ELSE "raised"]
    /\ UNCHANGED <<exported, exported_final, is_deferred, cstatus, path, result, rfinal, rsummary>>
    /\ UNCHANGED <<dbVars, storeVars, regVars, waitVars, lifeVars, callVars, histVars, crashes, fnVars, apiVars, resolverVars, stVars, createVars>>

\* db.commit(): the row's status becomes failed.
FailDbCommit(id) ==
    /\ pc[id] = "f_dbcommit"
    /\ \E ok \in BOOLEAN :
        IF ok
        THEN /\ status' = [status EXCEPT ![id] = FAILED]
             /\ pc' = [pc EXCEPT ![id] = FailStepAfter("f_dbcommit")]
        ELSE /\ pc' = [pc EXCEPT ![id] = "raised"]
             /\ UNCHANGED status
    /\ UNCHANGED <<exported, exported_final, is_deferred, cstatus, path, result, rfinal, rsummary>>
    /\ UNCHANGED <<convVars, storeVars, regVars, waitVars, lifeVars, callVars, histVars, crashes, fnVars, apiVars, resolverVars, stVars, createVars>>

\* The run_summary of a failed ExecutionResult: _handle_interrupt passes on
\* "exported_summary or RunSummary(duration_ms)", the error path builds
\* RunSummary(duration_ms) from the elapsed time.
FailedSummary(p) == IF p = "interrupt_failed" THEN "exported" ELSE "elapsed"

\* self._registry.unregister(session_id); the caller returns status failed.
FailUnregister(id) ==
    /\ pc[id] = "f_unreg"
    /\ unregister(id)
    /\ result' = [result EXCEPT ![id] = FAILED]
    /\ rfinal' = [rfinal EXCEPT ![id] = "absent"]
    /\ rsummary' = [rsummary EXCEPT ![id] = FailedSummary(path[id])]
    /\ pc' = [pc EXCEPT ![id] = FailStepAfter("f_unreg")]
    /\ UNCHANGED <<wtimeout, wres>>
    /\ UNCHANGED <<exported, exported_final, is_deferred, cstatus, path>>
    /\ UNCHANGED <<dbVars, storeVars, lifeVars, callVars, histVars, crashes, fnVars, apiVars, resolverVars, stVars, createVars>>

\* ---- SessionManager called directly -----------------------------------------

\* The positions of a session at which no call on it is in flight
NoCallInFlight == {"created", "registered", "done", "raised"}

\* Any caller calls commit_session(db, id, state=st, status=s) on a session
\* that has a row, registered or not.
ManagerCommit(id, st, s) ==
    /\ lpc = "serving"
    /\ pc[id] \in NoCallInFlight
    /\ exported' = [exported EXCEPT ![id] = st]
    /\ cstatus' = [cstatus EXCEPT ![id] = s]
    /\ path' = [path EXCEPT ![id] = "direct"]
    /\ pc' = [pc EXCEPT ![id] = CommitEntry(s)]
    /\ UNCHANGED <<exported_final, is_deferred, result, rfinal, rsummary>>
    /\ UNCHANGED <<dbVars, storeVars, regVars, waitVars, lifeVars, callVars, histVars, crashes, fnVars, apiVars, resolverVars, stVars, createVars>>

\* Any caller calls fail_session(db, id) on a session that has a row,
\* registered or not, with or without a blob.
ManagerFail(id) ==
    /\ lpc = "serving"
    /\ pc[id] \in NoCallInFlight
    /\ path' = [path EXCEPT ![id] = "direct"]
    /\ pc' = [pc EXCEPT ![id] = "f_update"]
    /\ UNCHANGED <<exported, exported_final, is_deferred, cstatus, result, rfinal, rsummary>>
    /\ UNCHANGED <<dbVars, storeVars, regVars, waitVars, lifeVars, callVars, histVars, crashes, fnVars, apiVars, resolverVars, stVars, createVars>>

\* commit_session returns the row to its caller; the arguments are gone.
ManagerCommitReturned(id) ==
    /\ pc[id] = "c_returned"
    /\ pc' = [pc EXCEPT ![id] = "done"]
    /\ exported' = [exported EXCEPT ![id] = NoState]
    /\ cstatus' = [cstatus EXCEPT ![id] = "none"]
    /\ UNCHANGED <<exported_final, is_deferred, path, result, rfinal, rsummary>>
    /\ UNCHANGED <<dbVars, storeVars, regVars, waitVars, lifeVars, callVars, histVars, crashes, fnVars, apiVars, resolverVars, stVars, createVars>>

\* commit_session raises to its caller; the arguments are gone.
ManagerCommitRaised(id) ==
    /\ pc[id] = "c_raised"
    /\ pc' = [pc EXCEPT ![id] = "raised"]
    /\ exported' = [exported EXCEPT ![id] = NoState]
    /\ cstatus' = [cstatus EXCEPT ![id] = "none"]
    /\ UNCHANGED <<exported_final, is_deferred, path, result, rfinal, rsummary>>
    /\ UNCHANGED <<dbVars, storeVars, regVars, waitVars, lifeVars, callVars, histVars, crashes, fnVars, apiVars, resolverVars, stVars, createVars>>

\* ---- process crash and restart ----------------------------------------------

\* The process dies: the registry, the waiters and every in-flight call are
\* gone; rows, blobs and staged files stay.  The new process starts up.
Crash ==
    /\ crashes < MaxCrashes
    /\ lpc # "starting"
    /\ crashes' = crashes + 1
    /\ sessions' = {}
    /\ streamer' = [i \in Ids |-> FALSE]
    /\ interrupted' = [i \in Ids |-> FALSE]
    /\ drain_event' = TRUE
    /\ shutting_down' = FALSE
    /\ last' = "init"
    /\ icount' = 0
    /\ wpc' = [w \in Waiters |-> "idle"]
    /\ wtimeout' = [w \in Waiters |-> FALSE]
    /\ wres' = [w \in Waiters |-> FALSE]
    /\ lpc' = "starting"
    /\ waitCalls' = 0
    /\ interruptCalls' = 0
    /\ recovered' = 0
    /\ pc' = [i \in Ids |-> IF pc[i] = "none" THEN "none" ELSE "dead"]
    /\ exported' = [i \in Ids |-> NoState]
    /\ exported_final' = [i \in Ids |-> "absent"]
    /\ is_deferred' = [i \in Ids |-> FALSE]
    /\ cstatus' = [i \in Ids |-> "none"]
    /\ path' = [i \in Ids |-> "none"]
    /\ result' = [i \in Ids |-> "none"]
    /\ rfinal' = [i \in Ids |-> "none"]
    /\ rsummary' = [i \in Ids |-> "none"]
    /\ UNCHANGED <<dbVars, storeVars, callVars, histVars, fnVars, apiVars, resolverVars, stVars, createVars>>

\* ---- execute_session: deferred tool results ---------------------------------

\* deferred_results = None
NoDeferredResults ==
    [present |-> FALSE,
     approvals |-> [t \in ToolCallIds |-> "absent"],
     calls |-> [t \in ToolCallIds |-> "absent"]]

\* _collect_approvals: ToolApproved() / ToolDenied() per interaction
CollectApprovals(inter) ==
    [t \in ToolCallIds |->
        CASE inter[t] = "approve" -> "approved"
          [] inter[t] = "deny" -> "denied"
          [] OTHER -> "absent"]

\* _collect_calls: ToolReturn(return_value = result.error or result.output or "")
CollectCalls(tools) ==
    [t \in ToolCallIds |->
        CASE tools[t] = "error" -> "error"
          [] tools[t] = "output" -> "output"
          [] OTHER -> "absent"]

\* _fill_uncovered, the approvals it leaves
FillUncoveredApprovals(meta, approvals) ==
    [t \in ToolCallIds |->
        IF meta[t] = "approval" /\ approvals[t] = "absent" THEN "auto_denied" ELSE approvals[t]]

\* _fill_uncovered, the calls it leaves
FillUncoveredCalls(meta, calls) ==
    [t \in ToolCallIds |->
        IF meta[t] = "call" /\ calls[t] = "absent" THEN "auto_failed" ELSE calls[t]]

build_deferred_tool_results(meta, inter, tools) ==
    IF \A t \in ToolCallIds : meta[t] = "absent"
    THEN NoDeferredResults
    ELSE LET approvals == FillUncoveredApprovals(meta, CollectApprovals(inter))
             calls == FillUncoveredCalls(meta, CollectCalls(tools))
         IN  IF /\ \A t \in ToolCallIds : approvals[t] = "absent"
                /\ \A t \in ToolCallIds : calls[t] = "absent"
             THEN NoDeferredResults
             ELSE [present |-> TRUE, approvals |-> approvals, calls |-> calls]

\* "user_interactions or tool_results": some feedback was supplied
HasFeedback(inter, tools) ==
    \/ \E t \in ToolCallIds : inter[t] # "none"
    \/ \E t \in ToolCallIds : tools[t] # "none"

\* execute_session: "if resumable_state and (user_interactions or
\* tool_results): deferred_results = build_deferred_tool_results(...)"
DeferredResults(resumable, meta, inter, tools) ==
    IF resumable /\ HasFeedback(inter, tools)
    THEN build_deferred_tool_results(meta, inter, tools)
    ELSE NoDeferredResults

\* execute_session builds the deferred results of a continuation.
BuildDeferredResults ==
    /\ dpc = "input"
    /\ dres' = DeferredResults(dresumable, dmeta, dinter, dtools)
    /\ dpc' = "built"
    /\ UNCHANGED <<dresumable, dmeta, dinter, dtools>>
    /\ UNCHANGED <<dbVars, storeVars, regVars, waitVars, lifeVars, execVars, callVars, histVars, crashes, createVars, resolverVars, stVars, apiVars>>

\* ---- resolve_config -----------------------------------------------------------

\* None, for a scalar field and for a list-valued field
None == "None"
NoList == <<"None">>
ShellModeLocal == "local"
ShellModeDocker == "docker"

\* Workspace references: "w1" has a row, "w2" has none.
WsRefs == {None, "w1", "w2"}

\* The value every field of the loaded preset row carries
PresetValue == "preset"

\* What resolve_config produces: a ResolvedConfig (kind "ok") or an exception
\* (its class as kind, the level it names as level).
NoResult ==
    [kind |-> "none", level |-> None, project_ids |-> NoList,
     model |-> None, system_prompt |-> None, toolsets |-> None, subagents |-> None,
     shell_mode |-> None, container_id |-> None, container_workdir |-> None]

Raised(kind, level) == [NoResult EXCEPT !.kind = kind, !.level = level]
Returned(projects) == [NoResult EXCEPT !.kind = "ok", !.project_ids = projects]

\* _first: "override if override is not None else default"
first(override, default) == IF override # None THEN override ELSE default

\* "override and override.<field>": None without an override
OverrideField(c, v) == IF c.override THEN v ELSE None

\* "env_override = override.environment if override else None"
HasEnvOverride(c) == c.override /\ c.ov_environment

\* EnvironmentSpec.shell_mode: "shell_mode: ShellMode = ShellMode.LOCAL", the
\* value of the field when the mode is not given.
EnvironmentSpecShellMode(given) == IF given = None THEN ShellModeLocal ELSE given

\* A workspace lookup that returns the projects in another order.
resolve_workspace_reversed(ws) ==
    IF ws = "w1" THEN Returned(<<"b", "a">>) ELSE Raised("workspace_not_found", ws)

\* _resolve_workspace: list(row.projects), or WorkspaceNotFoundError
resolve_workspace(ws) ==
    IF ws = "w1" THEN Returned(<<"a", "b">>) ELSE Raised("workspace_not_found", ws)

\* _resolve_env_projects: ProjectConflictError(source) when both are set, the
\* workspace's projects, the inline list, or None (kind "none").
resolve_env_projects(ws, proj, source) ==
    IF ws # None /\ proj # NoList
    THEN Raised("conflict", source)
    ELSE IF ws # None THEN resolve_workspace(ws)
    ELSE IF proj # NoList THEN Returned(proj)
    ELSE NoResult

\* _resolve_projects: the priority chain, returning at the first level that
\* supplies a value.
resolve_projects(c) ==
    IF c.workspace_id # None THEN resolve_workspace(c.workspace_id)
    ELSE IF c.project_ids # NoList THEN Returned(c.project_ids)
    ELSE LET o == IF HasEnvOverride(c)
                  THEN resolve_env_projects(c.ove_workspace_id, c.ove_project_ids, "override")
                  ELSE NoResult
             p == resolve_env_projects(c.pre_workspace_id, c.pre_project_ids, "preset")
         IN  IF o.kind # "none" THEN o
             ELSE IF p.kind # "none" THEN p
             ELSE IF c.parent_project_ids # NoList THEN Returned(c.parent_project_ids)
             ELSE Returned(<<>>)

\* resolve_config: the request-level check, _load_preset, the field merge, the
\* project list, the ResolvedConfig.
resolve_config(c) ==
    IF c.workspace_id # None /\ c.project_ids # NoList
    THEN Raised("conflict", "request")
    ELSE IF ~c.preset_found THEN Raised("no_preset", None)
    ELSE LET projects == resolve_projects(c)
         IN  IF projects.kind # "ok" THEN projects
             ELSE [kind |-> "ok",
                   level |-> None,
                   project_ids |-> projects.project_ids,
                   model |-> first(OverrideField(c, c.ov_model), PresetValue),
                   system_prompt |-> first(OverrideField(c, c.ov_system_prompt), PresetValue),
                   toolsets |-> first(OverrideField(c, c.ov_toolsets), PresetValue),
                   subagents |-> first(OverrideField(c, c.ov_subagents), PresetValue),
                   shell_mode |->
                       first(IF HasEnvOverride(c)
                             THEN EnvironmentSpecShellMode(c.ove_shell_mode) ELSE None,
                             EnvironmentSpecShellMode(c.pre_shell_mode)),
                   container_id |->
                       first(IF HasEnvOverride(c) THEN c.ove_container_id ELSE None,
                             c.pre_container_id),
                   container_workdir |->
                       first(IF HasEnvOverride(c) THEN c.ove_container_workdir ELSE None,
                             c.pre_container_workdir)]

\* One call of resolve_config.
ResolveConfig ==
    /\ cfgpc = "input"
    /\ cfgOut' = resolve_config(cfgIn)
    /\ cfgpc' = "resolved"
    /\ UNCHANGED cfgIn
    /\ UNCHANGED <<dbVars, storeVars, regVars, waitVars, lifeVars, execVars, callVars, histVars, crashes,
                   fnVars, apiVars, createVars, stVars>>

\* A call without override, with a preset that sets nothing.
NoInput ==
    [preset_found |-> TRUE, workspace_id |-> None, project_ids |-> NoList,
     parent_project_ids |-> NoList, override |-> FALSE,
     ov_model |-> None, ov_system_prompt |-> None, ov_toolsets |-> None, ov_subagents |-> None,
     ov_environment |-> FALSE, ove_shell_mode |-> None, ove_container_id |-> None,
     ove_container_workdir |-> None, ove_workspace_id |-> None, ove_project_ids |-> NoList,
     pre_shell_mode |-> ShellModeLocal, pre_container_id |-> None, pre_container_workdir |-> None,
     pre_workspace_id |-> None, pre_project_ids |-> NoList]

\* An absent override has no fields, an absent override environment neither.
WellFormedInput(c) ==
    /\ ~c.override =>
            /\ ~c.ov_environment
            /\ c.ov_model = None /\ c.ov_system_prompt = None
            /\ c.ov_toolsets = None /\ c.ov_subagents = None
    /\ ~c.ov_environment =>
            /\ c.ove_shell_mode = None /\ c.ove_container_id = None
            /\ c.ove_container_workdir = None
            /\ c.ove_workspace_id = None /\ c.ove_project_ids = NoList

\* Calls that vary what each level says about projects.
ProjectInputs ==
    {c \in [preset_found : BOOLEAN, workspace_id : WsRefs,
            project_ids : {NoList, <<>>, <<"r">>},
            parent_project_ids : {NoList, <<"q">>}, override : BOOLEAN,
            ov_model : {None}, ov_system_prompt : {None}, ov_toolsets : {None},
            ov_subagents : {None},
            ov_environment : BOOLEAN, ove_shell_mode : {None}, ove_container_id : {None},
            ove_container_workdir : {None}, ove_workspace_id : WsRefs,
            ove_project_ids : {NoList, <<>>, <<"o">>},
            pre_shell_mode : {ShellModeLocal}, pre_container_id : {None},
            pre_container_workdir : {None}, pre_workspace_id : WsRefs,
            pre_project_ids : {NoList, <<>>, <<"p">>}] : WellFormedInput(c)}

\* Calls that vary which fields the override and the preset set.
MergeInputs ==
    {c \in [preset_found : {TRUE}, workspace_id : {None}, project_ids : {NoList},
            parent_project_ids : {NoList}, override : BOOLEAN,
            ov_model : {None, "override"}, ov_system_prompt : {None, "override"},
            ov_toolsets : {None, "override"}, ov_subagents : {None, "override"},
            ov_environment : BOOLEAN, ove_shell_mode : {None, ShellModeLocal, ShellModeDocker},
            ove_container_id : {None, "override"},
            ove_container_workdir : {None, "override"}, ove_workspace_id : {None},
            ove_project_ids : {NoList, <<"o">>},
            pre_shell_mode : {ShellModeLocal, ShellModeDocker}, pre_container_id : {None, "preset"},
            pre_container_workdir : {None, "preset"}, pre_workspace_id : {None},
            pre_project_ids : {NoList}] : WellFormedInput(c)}

\* ---- StateStore: LocalStateStore and S3StateStore ------------------------------

\* Session ids are uuid4().hex strings: names without separators.
StoreIds == {"s1", "s2"}
\* Settings.data_prefix: None, or a namespace.
StorePrefixes == {None, "alice"}
StoreTargets == StorePrefixes \X StoreIds
StoreCalls == 1..MaxWrites
Backends == {"local", "s3"}

\* The content of a file or the body of an object is a text; NoFile stands
\* for a name that does not exist.
NoFile == <<-1>>
EmptyFile == <<>>

\* What a store call gives its caller: a value returned or an error raised.
Outcome(kind, state) == [kind |-> kind, state |-> state]
NotFound == Outcome("not_found", NoState)
Invalid == Outcome("invalid", NoState)
Failed == Outcome("error", NoState)
Done == Outcome("ok", NoState)
NoOutcome == Outcome("none", NoState)
Answer(b) == Outcome(IF b THEN "true" ELSE "false", NoState)

\* SessionState.model_validate_json on the text of a file or object: a
\* text that is not the whole document does not validate.
ParseState(text) ==
    IF Len(text) = 3 THEN Outcome("state", ModelValidateJson(text)) ELSE Invalid

\* A store that keeps the sessions of every namespace in one directory.
LocalDirWithoutPrefix(prefix, id) == <<"sessions", id>>

\* LocalStateStore.__init__ and _session_dir: {data_root}/{prefix}/sessions/{id},
\* without the prefix segment when there is no prefix.
LocalDir(prefix, id) ==
    (IF prefix = None THEN <<>> ELSE <<prefix>>) \o <<"sessions", id>>

\* A bucket that keeps the objects of every namespace under one prefix.
ObjectKeyWithoutPrefix(prefix, id) == <<"sessions", id, "state.json">>

\* S3StateStore.__init__ and _object_key: {prefix}/sessions/{id}/state.json
ObjectKey(prefix, id) ==
    (IF prefix = None THEN <<>> ELSE <<prefix>>) \o <<"sessions", id, "state.json">>

StoreDirs == {LocalDir(t[1], t[2]) : t \in StoreTargets}
StoreKeys == {ObjectKey(t[1], t[2]) : t \in StoreTargets}

\* A session directory that does not exist.
NoDir == [dir |-> FALSE, json |-> NoFile, tmp |-> [k \in StoreCalls |-> NoFile]]

\* path.parent.mkdir(parents=True, exist_ok=True)
Mkdir(fs, d) == [fs EXCEPT ![d].dir = TRUE]

\* tempfile.mkstemp(dir=path.parent, suffix=".tmp"): a new empty file of
\* its own name.
Mkstemp(fs, d, k) == [fs EXCEPT ![d].tmp[k] = EmptyFile]

\* f.write(data) on the temporary file, as far as it got.
WriteTmp(fs, d, k, text) == [fs EXCEPT ![d].tmp[k] = text]

\* os.rename(tmp_path, path)
Rename(fs, d, k) ==
    [fs EXCEPT ![d].json = fs[d].tmp[k], ![d].tmp[k] = NoFile]

\* An error path that leaves the temporary file where it is.
UnlinkSkipped(fs, d, k) == fs

\* os.unlink(tmp_path)
Unlink(fs, d, k) == [fs EXCEPT ![d].tmp[k] = NoFile]

\* A delete that removes the directory without looking first.
RmtreeCalledAlways(fs, d) == TRUE

\* _rmtree: "if path.exists()"
RmtreeCalled(fs, d) == fs[d].dir

\* shutil.rmtree(path): the directory and everything in it; an error when
\* the directory does not exist.
RmtreeRaises(fs, d) == ~fs[d].dir
Rmtree(fs, d) == [fs EXCEPT ![d] = NoDir]

\* LocalStateStore.write_state when no step fails.
LocalWriteState(fs, prefix, id, state) ==
    LET d == LocalDir(prefix, id)
        k == CHOOSE c \in StoreCalls : TRUE
    IN Rename(WriteTmp(Mkstemp(Mkdir(fs, d), d, k), d, k, ModelDumpJson(state)), d, k)

\* LocalStateStore.read_state: FileNotFoundError when state.json is missing.
LocalReadState(fs, prefix, id) ==
    LET text == fs[LocalDir(prefix, id)].json
    IN IF text = NoFile THEN NotFound ELSE ParseState(text)

\* LocalStateStore.exists
LocalExists(fs, prefix, id) == Answer(fs[LocalDir(prefix, id)].json # NoFile)

\* LocalStateStore.delete: the directory tree after the call, and what the
\* call gives its caller.
LocalDelete(fs, prefix, id) ==
    LET d == LocalDir(prefix, id)
    IN IF RmtreeCalled(fs, d) /\ ~RmtreeRaises(fs, d) THEN Rmtree(fs, d) ELSE fs

LocalDeleteOutcome(fs, prefix, id) ==
    LET d == LocalDir(prefix, id)
    IN IF RmtreeCalled(fs, d) /\ RmtreeRaises(fs, d) THEN Failed ELSE Done

\* S3StateStore.write_state: one put_object.
S3WriteState(bucket, prefix, id, state) ==
    [bucket EXCEPT ![ObjectKey(prefix, id)] = ModelDumpJson(state)]

\* S3StateStore.read_state: NoSuchKey becomes FileNotFoundError.
S3ReadState(bucket, prefix, id) ==
    LET body == bucket[ObjectKey(prefix, id)]
    IN IF body = NoFile THEN NotFound ELSE ParseState(body)

\* S3StateStore.exists: head_object, a 404 is False.
S3Exists(bucket, prefix, id) == Answer(bucket[ObjectKey(prefix, id)] # NoFile)

\* S3StateStore.delete: delete_object succeeds on a missing key too.
S3Delete(bucket, prefix, id) == [bucket EXCEPT ![ObjectKey(prefix, id)] = NoFile]

\* No store call was made yet.
NoObservation ==
    [op |-> "none", prefix |-> None, id |-> "none", local |-> NoOutcome, s3 |-> NoOutcome,
     again |-> FALSE]

\* What the caller of the last store call saw on each backend, and whether
\* the call before it was the same operation on the same prefix and id.
Observed(op, prefix, id, local, s3) ==
    [op |-> op, prefix |-> prefix, id |-> id, local |-> local, s3 |-> s3,
     again |-> (sout.op = op /\ sout.prefix = prefix /\ sout.id = id)]

\* ---- StateStore: one call after the other, on both backends ------------------

StoreWrite(prefix, id, state) ==
    /\ files' = LocalWriteState(files, prefix, id, state)
    /\ objects' = S3WriteState(objects, prefix, id, state)
    /\ sout' = Observed("write", prefix, id, Done, Done)
    /\ expect' = [expect EXCEPT ![<<prefix, id>>] = state]
    /\ UNCHANGED <<spc, sarg, published>>
    /\ UNCHANGED <<dbVars, storeVars, regVars, waitVars, lifeVars, execVars, callVars, histVars, crashes,
                   fnVars, apiVars, resolverVars, createVars>>

StoreRead(prefix, id) ==
    /\ sout' = Observed("read", prefix, id, LocalReadState(files, prefix, id),
                        S3ReadState(objects, prefix, id))
    /\ UNCHANGED <<files, objects, spc, sarg, expect, published>>
    /\ UNCHANGED <<dbVars, storeVars, regVars, waitVars, lifeVars, execVars, callVars, histVars, crashes,
                   fnVars, apiVars, resolverVars, createVars>>

StoreExists(prefix, id) ==
    /\ sout' = Observed("exists", prefix, id, LocalExists(files, prefix, id),
                        S3Exists(objects, prefix, id))
    /\ UNCHANGED <<files, objects, spc, sarg, expect, published>>
    /\ UNCHANGED <<dbVars, storeVars, regVars, waitVars, lifeVars, execVars, callVars, histVars, crashes,
                   fnVars, apiVars, resolverVars, createVars>>

StoreDelete(prefix, id) ==
    /\ files' = LocalDelete(files, prefix, id)
    /\ objects' = S3Delete(objects, prefix, id)
    /\ sout' = Observed("delete", prefix, id, LocalDeleteOutcome(files, prefix, id), Done)
    /\ expect' = [expect EXCEPT ![<<prefix, id>>] = NoState]
    /\ UNCHANGED <<spc, sarg, published>>
    /\ UNCHANGED <<dbVars, storeVars, regVars, waitVars, lifeVars, execVars, callVars, histVars, crashes,
                   fnVars, apiVars, resolverVars, createVars>>

\* ---- StateStore: write_state calls step by step -------------------------------

\* The session id the overlapping calls are about.
ContendedId == "s1"

NoWrite == [backend |-> "none", prefix |-> None, id |-> "none", state |-> NoState]
WriteInFlight == {"mkstemp", "write", "rename", "unlink", "put"}

\* write_state is called.
WriteBegin(k, backend, prefix, id, state) ==
    /\ spc[k] = "idle"
    /\ sarg' = [sarg EXCEPT ![k] = [backend |-> backend, prefix |-> prefix, id |-> id, state |-> state]]
    /\ spc' = [spc EXCEPT ![k] = IF backend = "local" THEN "mkstemp" ELSE "put"]
    /\ UNCHANGED <<files, objects, sout, expect, published>>
    /\ UNCHANGED <<dbVars, storeVars, regVars, waitVars, lifeVars, execVars, callVars, histVars, crashes,
                   fnVars, apiVars, resolverVars, createVars>>

WriteDir(k) == LocalDir(sarg[k].prefix, sarg[k].id)
WriteTarget(k) == <<sarg[k].backend, <<sarg[k].prefix, sarg[k].id>>>>

\* _atomic_write: mkdir and mkstemp, outside the try block; either may raise.
LocalMkstemp(k) ==
    /\ spc[k] = "mkstemp"
    /\ \E made \in BOOLEAN, ok \in BOOLEAN :
        /\ ok => made
        /\ files' = IF ok THEN Mkstemp(Mkdir(files, WriteDir(k)), WriteDir(k), k)
                    ELSE IF made THEN Mkdir(files, WriteDir(k)) ELSE files
        /\ spc' = [spc EXCEPT ![k] = IF ok THEN "write" ELSE "raised"]
        /\ sarg' = IF ok THEN sarg ELSE [sarg EXCEPT ![k] = NoWrite]
    /\ UNCHANGED <<objects, sout, expect, published>>
    /\ UNCHANGED <<dbVars, storeVars, regVars, waitVars, lifeVars, execVars, callVars, histVars, crashes,
                   fnVars, apiVars, resolverVars, createVars>>

\* _atomic_write: f.write(data); an error leaves any part of the text in
\* the temporary file.
LocalWrite(k) ==
    /\ spc[k] = "write"
    /\ \E n \in 0..Len(ModelDumpJson(sarg[k].state)) :
        /\ files' = WriteTmp(files, WriteDir(k), k, SubSeq(ModelDumpJson(sarg[k].state), 1, n))
        /\ spc' = [spc EXCEPT ![k] = IF n = Len(ModelDumpJson(sarg[k].state)) THEN "rename" ELSE "unlink"]
    /\ UNCHANGED <<objects, sarg, sout, expect, published>>
    /\ UNCHANGED <<dbVars, storeVars, regVars, waitVars, lifeVars, execVars, callVars, histVars, crashes,
                   fnVars, apiVars, resolverVars, createVars>>

\* _atomic_write: os.rename, after which write_state returns.
LocalRename(k) ==
    /\ spc[k] = "rename"
    /\ \E ok \in BOOLEAN :
        IF ok
        THEN /\ files' = Rename(files, WriteDir(k), k)
             /\ published' = [published EXCEPT ![WriteTarget(k)] = @ \cup {sarg[k].state}]
             /\ spc' = [spc EXCEPT ![k] = "returned"]
             /\ sarg' = [sarg EXCEPT ![k] = NoWrite]
        ELSE /\ spc' = [spc EXCEPT ![k] = "unlink"]
             /\ UNCHANGED <<files, published, sarg>>
    /\ UNCHANGED <<objects, sout, expect>>
    /\ UNCHANGED <<dbVars, storeVars, regVars, waitVars, lifeVars, execVars, callVars, histVars, crashes,
                   fnVars, apiVars, resolverVars, createVars>>

\* _atomic_write: "except BaseException": unlink the temporary file, raise.
LocalUnlink(k) ==
    /\ spc[k] = "unlink"
    /\ files' = Unlink(files, WriteDir(k), k)
    /\ spc' = [spc EXCEPT ![k] = "raised"]
    /\ sarg' = [sarg EXCEPT ![k] = NoWrite]
    /\ UNCHANGED <<objects, sout, expect, published>>
    /\ UNCHANGED <<dbVars, storeVars, regVars, waitVars, lifeVars, execVars, callVars, histVars, crashes,
                   fnVars, apiVars, resolverVars, createVars>>

\* S3StateStore.write_state: put_object stores the whole body or raises.
S3Put(k) ==
    /\ spc[k] = "put"
    /\ \E ok \in BOOLEAN :
        IF ok
        THEN /\ objects' = S3WriteState(objects, sarg[k].prefix, sarg[k].id, sarg[k].state)
             /\ published' = [published EXCEPT ![WriteTarget(k)] = @ \cup {sarg[k].state}]
             /\ spc' = [spc EXCEPT ![k] = "returned"]
        ELSE /\ spc' = [spc EXCEPT ![k] = "raised"]
             /\ UNCHANGED <<objects, published>>
    /\ sarg' = [sarg EXCEPT ![k] = NoWrite]
    /\ UNCHANGED <<files, sout, expect>>
    /\ UNCHANGED <<dbVars, storeVars, regVars, waitVars, lifeVars, execVars, callVars, histVars, crashes,
                   fnVars, apiVars, resolverVars, createVars>>

\* The process dies: the write_state calls in flight stop where they are,
\* and what they put on disk stays.
StoreCrash ==
    /\ \E k \in StoreCalls : spc[k] \in WriteInFlight
    /\ spc' = [k \in StoreCalls |-> IF spc[k] \in WriteInFlight THEN "dead" ELSE spc[k]]
    /\ sarg' = [k \in StoreCalls |-> IF spc[k] \in WriteInFlight THEN NoWrite ELSE sarg[k]]
    /\ UNCHANGED <<files, objects, sout, expect, published>>
    /\ UNCHANGED <<dbVars, storeVars, regVars, waitVars, lifeVars, execVars, callVars, histVars, crashes,
                   fnVars, apiVars, resolverVars, createVars>>

\* ---- presets: create_preset, update_preset, delete_preset ---------------------

PresetIds == {"p1", "p2", "p3"}
PresetCalls == {"t1", "t2"}
FirstCall == "t1"
Absent == "absent"
\* body.is_default: True, False, or (update only) a field the body does not set
IsDefaultArgs == {"yes", "no", "unset"}
NoCall == [op |-> "none", id |-> "none", flag |-> "none", loaded |-> "none"]

\* the presets a table marks as default
Defaults(table) == {p \in PresetIds : table[p] = "yes"}

\* a call is between its first statement and its commit or rollback
PresetCallEnded(t) == ppc[t] \in {"idle", "returned", "raised"}

\* rows another transaction updated and has not committed yet
LockedByOthers(t) == UNION {plocks[u] : u \in PresetCalls \ {t}}

UnsetRowsNone(table, snap) == {}

\* _unset_all_defaults: of the rows the statement selected, those that still
\* satisfy is_default IS TRUE when the statement reaches them
UnsetRows(table, snap) == {p \in snap : table[p] = "yes"}

\* db.get at the head of each handler: the duplicate or not-found check
PresetRejected(op, id) ==
    IF op = "create" THEN presets[id] # Absent ELSE presets[id] = Absent

\* whether the handler calls _unset_all_defaults
UnsetsDefaults(op, flag) == op \in {"create", "update"} /\ flag = "yes"

\* the handler up to its first write: db.get, then the branch on is_default
PresetBegin(t, op, id, flag) ==
    /\ PresetCallEnded(t)
    /\ op \in {"create", "update", "delete"}
    /\ op = "create" => flag # "unset"
    /\ op = "delete" => flag = "unset"
    /\ parg' = [parg EXCEPT ![t] = [op |-> op, id |-> id, flag |-> flag, loaded |-> presets[id]]]
    /\ ppc' = [ppc EXCEPT ![t] = IF PresetRejected(op, id) THEN "raised"
                                 ELSE IF UnsetsDefaults(op, flag) THEN "unset"
                                 ELSE "flush"]
    /\ psnap' = [psnap EXCEPT ![t] = {}]
    /\ plocks' = [plocks EXCEPT ![t] = {}]
    /\ UNCHANGED presets
    /\ UNCHANGED <<dbVars, storeVars, regVars, waitVars, lifeVars, execVars, callVars, histVars, crashes,
                   fnVars, resolverVars, createVars, stVars, turnVars>>

\* _unset_all_defaults, the statement starts: it selects the committed defaults
PresetUnsetSelect(t) ==
    /\ ppc[t] = "unset"
    /\ psnap' = [psnap EXCEPT ![t] = Defaults(presets)]
    /\ ppc' = [ppc EXCEPT ![t] = "unset_wait"]
    /\ UNCHANGED <<presets, parg, plocks>>
    /\ UNCHANGED <<dbVars, storeVars, regVars, waitVars, lifeVars, execVars, callVars, histVars, crashes,
                   fnVars, resolverVars, createVars, stVars, turnVars>>

\* _unset_all_defaults, the statement ends: it waits for the rows another
\* transaction holds, then updates those that are still default
PresetUnsetApply(t) ==
    /\ ppc[t] = "unset_wait"
    /\ psnap[t] \cap LockedByOthers(t) = {}
    /\ plocks' = [plocks EXCEPT ![t] = UnsetRows(presets, psnap[t])]
    /\ ppc' = [ppc EXCEPT ![t] = "flush"]
    /\ UNCHANGED <<presets, parg, psnap>>
    /\ UNCHANGED <<dbVars, storeVars, regVars, waitVars, lifeVars, execVars, callVars, histVars, crashes,
                   fnVars, resolverVars, createVars, stVars, turnVars>>

\* whether the flush writes the is_default column of the handler's own row:
\* the loaded object was synchronised with the bulk UPDATE, so setting True
\* after it is always a change; setting False is one when True was loaded
WritesOwnRow(arg) ==
    \/ arg.op \in {"create", "delete"}
    \/ arg.op = "update" /\ arg.flag = "yes"
    \/ arg.op = "update" /\ arg.flag = "no" /\ arg.loaded = "yes"

\* the flush fails: the INSERT meets a row of that id, or the UPDATE or DELETE
\* meets no row
FlushFails(arg) ==
    IF arg.op = "create" THEN presets[arg.id] # Absent
    ELSE WritesOwnRow(arg) /\ presets[arg.id] = Absent

\* the table once the transaction has committed
Committed(table, arg, unset) ==
    [p \in PresetIds |->
        IF p = arg.id /\ WritesOwnRow(arg)
        THEN (IF arg.op = "delete" THEN Absent ELSE arg.flag)
        ELSE IF p \in unset /\ table[p] # Absent THEN "no"
        ELSE table[p]]

\* db.add / setattr / db.delete, then db.commit: the flush and the commit
PresetCommit(t, dbok) ==
    /\ ppc[t] = "flush"
    /\ WritesOwnRow(parg[t]) /\ parg[t].op # "create" => parg[t].id \notin LockedByOthers(t)
    /\ IF dbok /\ ~FlushFails(parg[t])
       THEN /\ presets' = Committed(presets, parg[t], plocks[t])
            /\ ppc' = [ppc EXCEPT ![t] = "returned"]
       ELSE /\ ppc' = [ppc EXCEPT ![t] = "raised"]
            /\ UNCHANGED presets
    /\ plocks' = [plocks EXCEPT ![t] = {}]
    /\ UNCHANGED <<parg, psnap>>
    /\ UNCHANGED <<dbVars, storeVars, regVars, waitVars, lifeVars, execVars, callVars, histVars, crashes,
                   fnVars, resolverVars, createVars, stVars, turnVars>>

InitPresets ==
    /\ presets = [p \in PresetIds |-> Absent]
    /\ ppc = [t \in PresetCalls |-> "idle"]
    /\ parg = [t \in PresetCalls |-> NoCall]
    /\ psnap = [t \in PresetCalls |-> {}]
    /\ plocks = [t \in PresetCalls |-> {}]

\* ---- SessionManager.get_conversation_turns ------------------------------------

TurnConvs == {"c1", "c2"}
NoSessionRow == [conv |-> "none", status |-> NoRow, created_at |-> 0]
NoDisplay == [found |-> FALSE, messages |-> << >>]
NoTurns == [conv |-> "none", messages |-> << >>]

\* the display messages a session may record: two entries that name it
DisplayOf(id) == {<<[sid |-> id, n |-> 1], [sid |-> id, n |-> 2]>>}

\* the latest created_at in the table
LastCreatedAt(rows) ==
    IF \A i \in Ids : rows[i].status = NoRow THEN 0
    ELSE CHOOSE n \in {rows[i].created_at : i \in Ids} : \A i \in Ids : rows[i].created_at <= n

\* StateStore.write_display_messages
write_display_messages(store, sid, messages) ==
    [store EXCEPT ![sid] = [found |-> TRUE, messages |-> messages]]

\* StateStore.read_display_messages: found is FALSE for FileNotFoundError
read_display_messages(store, sid) == store[sid]

TurnStatusesWithFailed == {COMMITTED, AWAITING_TOOL_RESULTS, FAILED}

\* the statuses the query of get_conversation_turns selects
TurnStatuses == {COMMITTED, AWAITING_TOOL_RESULTS}

\* the rows the query of get_conversation_turns selects
TurnSessions(rows, c) == {i \in Ids : rows[i].conv = c /\ rows[i].status \in TurnStatuses}

\* ORDER BY created_at ASC
RECURSIVE OrderByCreatedAt(_, _)
OrderByCreatedAt(rows, ids) ==
    IF ids = {} THEN << >>
    ELSE LET oldest == CHOOSE i \in ids : \A j \in ids : rows[i].created_at <= rows[j].created_at
         IN <<oldest>> \o OrderByCreatedAt(rows, ids \ {oldest})

\* the loop over the selected ids: extend, or continue on FileNotFoundError
RECURSIVE ExtendTurns(_, _)
ExtendTurns(ids, store) ==
    IF ids = << >> THEN << >>
    ELSE LET got == read_display_messages(store, Head(ids))
         IN (IF got.found THEN got.messages ELSE << >>) \o ExtendTurns(Tail(ids), store)

get_conversation_turns(rows, store, c) ==
    ExtendTurns(OrderByCreatedAt(rows, TurnSessions(rows, c)), store)

\* create_session: a row in status created, stamped by the database
TurnCreateSession(id, c) ==
    /\ session_rows[id].status = NoRow
    /\ session_rows' = [session_rows EXCEPT ![id] =
                            [conv |-> c, status |-> CREATED, created_at |-> LastCreatedAt(session_rows) + 1]]
    /\ turns' = NoTurns
    /\ UNCHANGED display_messages
    /\ UNCHANGED <<dbVars, storeVars, regVars, waitVars, lifeVars, execVars, callVars, histVars, crashes,
                   fnVars, resolverVars, createVars, stVars, presetVars>>

\* commit_session: the display messages are written before the row is
\* updated; when the update fails the row keeps its status
TurnCommitSession(id, s, record, messages, dbok) ==
    /\ session_rows[id].status # NoRow
    /\ display_messages' = IF record THEN write_display_messages(display_messages, id, messages)
                           ELSE display_messages
    /\ session_rows' = IF dbok THEN [session_rows EXCEPT ![id].status = s] ELSE session_rows
    /\ turns' = NoTurns
    /\ UNCHANGED <<dbVars, storeVars, regVars, waitVars, lifeVars, execVars, callVars, histVars, crashes,
                   fnVars, resolverVars, createVars, stVars, presetVars>>

\* fail_session
TurnFailSession(id) ==
    /\ session_rows[id].status # NoRow
    /\ session_rows' = [session_rows EXCEPT ![id].status = FAILED]
    /\ turns' = NoTurns
    /\ UNCHANGED display_messages
    /\ UNCHANGED <<dbVars, storeVars, regVars, waitVars, lifeVars, execVars, callVars, histVars, crashes,
                   fnVars, resolverVars, createVars, stVars, presetVars>>

GetConversationTurns(c) ==
    /\ turns' = [conv |-> c, messages |-> get_conversation_turns(session_rows, display_messages, c)]
    /\ UNCHANGED <<session_rows, display_messages>>
    /\ UNCHANGED <<dbVars, storeVars, regVars, waitVars, lifeVars, execVars, callVars, histVars, crashes,
                   fnVars, resolverVars, createVars, stVars, presetVars>>

InitTurns ==
    /\ session_rows = [i \in Ids |-> NoSessionRow]
    /\ display_messages = [i \in Ids |-> NoDisplay]
    /\ turns = NoTurns

InitApi == InitPresets /\ InitTurns

\* ---- specifications ----------------------------------------------------------

InitRuntime ==
    /\ status = [i \in Ids |-> NoRow]
    /\ conversation_id = [i \in Ids |-> NoConv]
    /\ parent_session_id = [i \in Ids |-> NoSession]
    /\ conversations = {}
    /\ cpc = "idle"
    /\ csid = NoSession
    /\ cparent = NoSession
    /\ cexplicit = NoConv
    /\ cconv = NoConv
    /\ cpending = FALSE
    /\ requested_conv = [i \in Ids |-> NoConv]
    /\ blob = [i \in Ids |-> NoBlob]
    /\ tmp = [i \in Ids |-> FALSE]
    /\ RegistryInit
    /\ wpc = [w \in Waiters |-> "idle"]
    /\ wtimeout = [w \in Waiters |-> FALSE]
    /\ wres = [w \in Waiters |-> FALSE]
    /\ lpc = "starting"
    /\ waitCalls = 0
    /\ interruptCalls = 0
    /\ recovered = 0
    /\ pc = [i \in Ids |-> "none"]
    /\ exported = [i \in Ids |-> NoState]
    /\ exported_final = [i \in Ids |-> "absent"]
    /\ is_deferred = [i \in Ids |-> FALSE]
    /\ cstatus = [i \in Ids |-> "none"]
    /\ path = [i \in Ids |-> "none"]
    /\ result = [i \in Ids |-> "none"]
    /\ rfinal = [i \in Ids |-> "none"]
    /\ rsummary = [i \in Ids |-> "none"]
    /\ commitCalls = [i \in Ids |-> 0]
    /\ failCalls = [i \in Ids |-> 0]
    /\ wrote = [i \in Ids |-> FALSE]
    /\ flipped = [i \in Ids |-> FALSE]
    /\ removed = [i \in Ids |-> FALSE]
    /\ crashes = 0

\* No continuation is being set up.
InitNoDeferred ==
    /\ dpc = "input"
    /\ dresumable = FALSE
    /\ dmeta = [t \in ToolCallIds |-> "absent"]
    /\ dinter = [t \in ToolCallIds |-> "none"]
    /\ dtools = [t \in ToolCallIds |-> "none"]
    /\ dres = NoDeferredResults

\* No configuration is being resolved.
InitNoResolve ==
    /\ cfgpc = "input"
    /\ cfgIn = NoInput
    /\ cfgOut = NoResult

\* An empty data root and an empty bucket; no store call made.
InitStore ==
    /\ files = [d \in StoreDirs |-> NoDir]
    /\ objects = [key \in StoreKeys |-> NoFile]
    /\ spc = [k \in StoreCalls |-> "idle"]
    /\ sarg = [k \in StoreCalls |-> NoWrite]
    /\ sout = NoObservation
    /\ expect = [t \in StoreTargets |-> NoState]
    /\ published = [t \in Backends \X StoreTargets |-> {}]

Init == InitRuntime /\ InitNoDeferred /\ InitNoResolve /\ InitStore /\ InitApi

\* The application while it serves: sessions created and executed,
\* interrupts, crashes and restarts.
Next ==
    \/ Startup
    \/ \E id \in SessionIds : CreateSession(id)
    \/ \E id \in SessionIds : ExecSetupFails(id)
    \/ \E id \in SessionIds : ExecRegister(id)
    \/ \E id \in SessionIds : ExecEnterStream(id)
    \/ \E id \in SessionIds, st \in SessionState, out \in Outputs : ExecRunCompletes(id, st, out)
    \/ \E id \in SessionIds : ExecDeliverEvent(id)
    \/ \E id \in SessionIds : ExecSinkReturns(id)
    \/ \E id \in SessionIds : ExecSinkRaises(id)
    \/ \E id \in SessionIds : ExecRunFails(id)
    \/ \E id \in SessionIds : ExecInterruptedEarly(id)
    \/ \E id \in SessionIds : ExecExitStream(id)
    \/ \E id \in SessionIds : CommitStage(id)
    \/ \E id \in SessionIds : CommitRename(id)
    \/ \E id \in SessionIds : CommitUpdate(id)
    \/ \E id \in SessionIds : CommitDbCommit(id)
    \/ \E id \in SessionIds : CommitUnregister(id)
    \/ \E id \in SessionIds : CommitRead(id)
    \/ \E id \in SessionIds : ExecCommitReturned(id)
    \/ \E id \in SessionIds : ExecCommitRaised(id)
    \/ \E id \in SessionIds : FailUpdate(id)
    \/ \E id \in SessionIds : FailDbCommit(id)
    \/ \E id \in SessionIds : FailUnregister(id)
    \/ InterruptRequest
    \/ Crash

Spec == Init /\ [][Next]_vars

\* The registry and the shutdown sequence under arbitrary callers.
NextRegistry ==
    \/ Startup
    \/ \E id \in Ids, st \in BOOLEAN : Register(id, st)
    \/ \E id \in Ids : Unregister(id)
    \/ BeginShutdown
    \/ InterruptRequest
    \/ \E w \in Waiters, to \in BOOLEAN : WaitCall(w, to)
    \/ \E w \in Waiters : WaitTimeout(w)
    \/ \E w \in Waiters : WaitReturn(w)
    \/ ShutdownBegin
    \/ ShutdownAfterWait
    \/ ShutdownAfterRewait

SpecRegistry == Init /\ [][NextRegistry]_vars

\* The application while it serves and while its shutdown begins: sessions
\* created and executed, interrupt requests, and begin_shutdown called at any
\* moment.  No process crash.
NextServing ==
    \/ Startup
    \/ BeginShutdown
    \/ InterruptRequest
    \/ \E id \in SessionIds : CreateSession(id)
    \/ \E id \in SessionIds : ExecSetupFails(id)
    \/ \E id \in SessionIds : ExecRegister(id)
    \/ \E id \in SessionIds : ExecEnterStream(id)
    \/ \E id \in SessionIds, st \in SessionState, out \in Outputs : ExecRunCompletes(id, st, out)
    \/ \E id \in SessionIds : ExecDeliverEvent(id)
    \/ \E id \in SessionIds : ExecSinkReturns(id)
    \/ \E id \in SessionIds : ExecSinkRaises(id)
    \/ \E id \in SessionIds : ExecRunFails(id)
    \/ \E id \in SessionIds : ExecInterruptedEarly(id)
    \/ \E id \in SessionIds : ExecExitStream(id)
    \/ \E id \in SessionIds : CommitStage(id)
    \/ \E id \in SessionIds : CommitRename(id)
    \/ \E id \in SessionIds : CommitUpdate(id)
    \/ \E id \in SessionIds : CommitDbCommit(id)
    \/ \E id \in SessionIds : CommitUnregister(id)
    \/ \E id \in SessionIds : CommitRead(id)
    \/ \E id \in SessionIds : ExecCommitReturned(id)
    \/ \E id \in SessionIds : ExecCommitRaised(id)
    \/ \E id \in SessionIds : FailUpdate(id)
    \/ \E id \in SessionIds : FailDbCommit(id)
    \/ \E id \in SessionIds : FailUnregister(id)

SpecServing == Init /\ [][NextServing]_vars

\* One step of the execute_session call of a session, whichever it is.
ExecutionStep(id) ==
    \/ ExecSetupFails(id)
    \/ ExecRegister(id)
    \/ ExecEnterStream(id)
    \/ \E st \in SessionState, out \in Outputs : ExecRunCompletes(id, st, out)
    \/ ExecDeliverEvent(id)
    \/ ExecSinkReturns(id)
    \/ ExecSinkRaises(id)
    \/ ExecRunFails(id)
    \/ ExecInterruptedEarly(id)
    \/ ExecExitStream(id)
    \/ CommitStage(id)
    \/ CommitRename(id)
    \/ CommitUpdate(id)
    \/ CommitDbCommit(id)
    \/ CommitUnregister(id)
    \/ CommitRead(id)
    \/ ExecCommitReturned(id)
    \/ ExecCommitRaised(id)
    \/ FailUpdate(id)
    \/ FailDbCommit(id)
    \/ FailUnregister(id)

\* The serving application when the event loop keeps running every
\* execute_session task that can take a step.
FairSpecServing == SpecServing /\ \A id \in SessionIds : WF_vars(ExecutionStep(id))

\* The session manager under arbitrary callers: commit_session with any state
\* and any status and fail_session, on sessions that are registered or not,
\* any number of times.
NextManager ==
    \/ Startup
    \/ \E id \in SessionIds : CreateSession(id)
    \/ \E id \in SessionIds : ExecRegister(id)
    \/ \E id \in SessionIds, st \in SessionState, s \in SessionStatus : ManagerCommit(id, st, s)
    \/ \E id \in SessionIds : CommitStage(id)
    \/ \E id \in SessionIds : CommitRename(id)
    \/ \E id \in SessionIds : CommitUpdate(id)
    \/ \E id \in SessionIds : CommitDbCommit(id)
    \/ \E id \in SessionIds : CommitUnregister(id)
    \/ \E id \in SessionIds : CommitRead(id)
    \/ \E id \in SessionIds : ManagerCommitReturned(id)
    \/ \E id \in SessionIds : ManagerCommitRaised(id)
    \/ \E id \in SessionIds : ManagerFail(id)
    \/ \E id \in SessionIds : FailUpdate(id)
    \/ \E id \in SessionIds : FailDbCommit(id)
    \/ \E id \in SessionIds : FailUnregister(id)

SpecManager == Init /\ [][NextManager]_vars

\* The event loop runs every task that is ready, and the timeouts of the
\* shutdown sequence are finite.
FairSpecRegistry ==
    /\ SpecRegistry
    /\ \A w \in Waiters : WF_vars(WaitReturn(w))
    /\ WF_vars(WaitTimeout(Lifespan))
    /\ WF_vars(ShutdownAfterWait)
    /\ WF_vars(ShutdownAfterRewait)

\* Any sequence of create_session calls: roots, continuations and forks, with
\* parents that exist and parents that do not.
NextCreate ==
    \/ \E parent \in Ids \cup {NoSession}, explicit \in ConvIds \cup {NoConv} : CreateBegin(parent, explicit)
    \/ CreateResolve
    \/ CreateLookup
    \/ \E dbok \in BOOLEAN : CreateCommit(dbok)
    \/ \E dbok \in BOOLEAN : CreateRefresh(dbok)

SpecCreate == Init /\ [][NextCreate]_vars

\* A continuation with any pending deferred requests and any feedback.
InitDeferred ==
    /\ InitRuntime
    /\ InitNoResolve
    /\ InitStore
    /\ InitApi
    /\ dpc = "input"
    /\ dresumable \in BOOLEAN
    /\ dmeta \in [ToolCallIds -> {"absent", "approval", "call"}]
    /\ dinter \in [ToolCallIds -> {"none", "approve", "deny"}]
    /\ dtools \in [ToolCallIds -> {"none", "output", "error"}]
    /\ dres = NoDeferredResults

NextDeferred == BuildDeferredResults

SpecDeferred == InitDeferred /\ [][NextDeferred]_vars

\* resolve_config called once with any of the inputs.
InitResolver ==
    /\ InitRuntime
    /\ InitNoDeferred
    /\ InitStore
    /\ InitApi
    /\ cfgpc = "input"
    /\ cfgIn \in ProjectInputs \cup MergeInputs
    /\ cfgOut = NoResult

NextResolver == ResolveConfig

SpecResolver == InitResolver /\ [][NextResolver]_vars

\* A state store used through its four operations, one call at a time, the
\* same calls made on the filesystem store and on the S3 store.
NextStore ==
    \E prefix \in StorePrefixes, id \in StoreIds :
        \/ \E state \in SessionState : StoreWrite(prefix, id, state)
        \/ StoreRead(prefix, id)
        \/ StoreExists(prefix, id)
        \/ StoreDelete(prefix, id)

SpecStore == Init /\ [][NextStore]_vars

\* write_state calls for one session id that overlap, fail at any step and
\* are cut short by a crash, with reads of that id in between.
NextWriters ==
    \/ \E k \in StoreCalls, backend \in Backends, state \in SessionState :
          WriteBegin(k, backend, None, ContendedId, state)
    \/ \E k \in StoreCalls : LocalMkstemp(k)
    \/ \E k \in StoreCalls : LocalWrite(k)
    \/ \E k \in StoreCalls : LocalRename(k)
    \/ \E k \in StoreCalls : LocalUnlink(k)
    \/ \E k \in StoreCalls : S3Put(k)
    \/ StoreRead(None, ContendedId)
    \/ StoreCrash

SpecWriters == Init /\ [][NextWriters]_vars

\* Preset calls, each run to completion before the next starts.
NextPresets ==
    \/ \E op \in {"create", "update", "delete"}, id \in PresetIds, flag \in IsDefaultArgs :
            PresetBegin(FirstCall, op, id, flag)
    \/ PresetUnsetSelect(FirstCall)
    \/ PresetUnsetApply(FirstCall)
    \/ \E dbok \in BOOLEAN : PresetCommit(FirstCall, dbok)

SpecPresets == Init /\ [][NextPresets]_vars

\* Two request handlers that create or update a preset as the default, their
\* database steps interleaved.
NextPresetsRacing ==
    \/ \E t \in PresetCalls, op \in {"create", "update"}, id \in PresetIds : PresetBegin(t, op, id, "yes")
    \/ \E t \in PresetCalls : PresetUnsetSelect(t)
    \/ \E t \in PresetCalls : PresetUnsetApply(t)
    \/ \E t \in PresetCalls, dbok \in BOOLEAN : PresetCommit(t, dbok)

SpecPresetsRacing == Init /\ [][NextPresetsRacing]_vars

\* Sessions created, committed and failed, and the turns of a conversation read.
NextTurns ==
    \/ \E id \in Ids, c \in TurnConvs : TurnCreateSession(id, c)
    \/ \E id \in Ids, s \in {COMMITTED, AWAITING_TOOL_RESULTS}, record \in BOOLEAN, dbok \in BOOLEAN :
            \E messages \in (IF record THEN DisplayOf(id) ELSE {<< >>}) : TurnCommitSession(id, s, record, messages, dbok)
    \/ \E id \in Ids : TurnFailSession(id)
    \/ \E c \in TurnConvs : GetConversationTurns(c)

SpecTurns == Init /\ [][NextTurns]_vars

\* ---- properties ---------------------------------------------------------------

\* C1: in commit_session the state write of a session is complete before its
\* row leaves status created, and the row has left created before the session
\* is removed from the registry -- in every execution, crashed ones included.
C1_CommitOrder ==
    \A id \in Ids :
        /\ flipped[id] => (wrote[id] /\ blob[id] # NoBlob)
        /\ removed[id] => (flipped[id] /\ status[id] \notin {NoRow, CREATED})

C1_Witness ==
    \E id \in Ids : pc[id] = "c_read" /\ wrote[id] /\ flipped[id] /\ removed[id]

\* C2: a session whose row is committed or awaiting_tool_results has a state
\* blob in the store.
C2_CommittedHasBlob ==
    \A id \in Ids :
        status[id] \in {COMMITTED, AWAITING_TOOL_RESULTS} => blob[id] # NoBlob

C2_Witness ==
    \E id \in Ids : status[id] = AWAITING_TOOL_RESULTS /\ blob[id] # NoBlob /\ crashes > 0

\* C3 as stated: a session whose row is created or failed has no state blob.
C3_NoBlobUnlessCommitted ==
    \A id \in Ids :
        status[id] \in {CREATED, FAILED} => blob[id] = NoBlob

\* C3 amended: a session whose row is created or failed has no state blob,
\* unless a commit_session call for it finished the state write and then did
\* not return (it raised, or the process crashed, after the write).
C3_BlobOnlyFromUnfinishedCommit ==
    \A id \in Ids :
        (status[id] \in {CREATED, FAILED} /\ blob[id] # NoBlob)
            => /\ wrote[id]
               /\ pc[id] # "c_returned"
               /\ result[id] \notin {COMMITTED, AWAITING_TOOL_RESULTS}

C3_Witness ==
    \E id \in Ids : status[id] = FAILED /\ blob[id] # NoBlob /\ result[id] = FAILED

\* C4: when commit_session(id, state, status) returns, the store holds a blob
\* for id that reads back as the state passed, the row has the status
\* passed, and id is not registered.
C4_CommitPostcondition ==
    \A id \in Ids :
        pc[id] = "c_returned"
            => /\ blob[id] # NoBlob
               /\ ModelValidateJson(blob[id]) = exported[id]
               /\ status[id] = cstatus[id]
               /\ id \notin sessions

C4_Witness ==
    \E id \in Ids : pc[id] = "c_returned" /\ cstatus[id] = AWAITING_TOOL_RESULTS

\* C5: when commit_session raises, at whichever step, the session is still
\* registered and its row still reads created.
C5_RaiseLeavesSessionUntouched ==
    \A id \in Ids :
        pc[id] = "c_raised" => (id \in sessions /\ status[id] = CREATED)

\* C6: once begin_shutdown has been called, the flag stays set, every
\* register call is refused and leaves the registered sessions and the
\* drained signal as they were, and no session is ever added.
C6_ShutdownRefusesRegistration ==
    [][shutting_down =>
          /\ shutting_down'
          /\ sessions' \subseteq sessions
          /\ \A id \in Ids, st \in BOOLEAN :
                Register(id, st) =>
                    (last' = "refused" /\ sessions' = sessions /\ drain_event' = drain_event)
      ]_vars

C6_Witness == shutting_down /\ last = "refused" /\ sessions # {}

\* C7: the drained signal is set exactly when no session is registered.
C7_DrainedIffEmpty == drain_event <=> (sessions = {})

C7_Witness == last = "unregister" /\ sessions = {} /\ drain_event /\ ~shutting_down

\* C8: wait_until_drained returns true only if no session is registered at
\* the moment it returns, and false only if its timeout elapsed while a
\* session was still registered.
C8_WaitResultMatchesRegistry ==
    [][\A w \in Waiters \ {Lifespan} :
          /\ (wpc[w] \in {"woken", "timedout"} /\ wpc'[w] = "returned")
                => /\ wres'[w] => sessions' = {}
                   /\ ~wres'[w] => wpc[w] = "timedout"
          /\ (wpc[w] = "waiting" /\ wpc'[w] = "timedout") => sessions # {}
      ]_vars

\* C9: a suspended wait_until_drained call is resolved by the unregister that
\* empties the registry and then returns true; a call made on an empty
\* registry returns true without suspending.
C9_DrainReleasesWaiter ==
    /\ [](\A w \in Waiters \ {Lifespan} : wpc[w] = "waiting" => sessions # {})
    /\ \A w \in Waiters \ {Lifespan} :
          (wpc[w] = "woken") ~> (wpc[w] = "returned" /\ wres[w])
    /\ [][\A w \in Waiters \ {Lifespan} :
              (sessions = {} /\ \E to \in BOOLEAN : WaitCall(w, to))
                  => (wpc'[w] = "returned" /\ wres'[w])]_vars

C9_Witness ==
    \E w \in Waiters \ {Lifespan} :
        wpc[w] = "woken" /\ sessions = {} /\ last = "unregister"

\* C10: the shutdown sequence makes at most two drain waits and at most one
\* interrupt_all, the second wait exactly when the first timed out, and
\* always reaches teardown, with sessions registered or not.
C10_ShutdownTerminates ==
    /\ [](/\ waitCalls <= 2
          /\ interruptCalls <= 1
          /\ (waitCalls = 2) <=> (interruptCalls = 1)
          /\ lpc = "wait1" => waitCalls = 1
          /\ lpc = "wait2" => waitCalls = 2)
    /\ (lpc \in {"wait1", "wait2"}) ~> (lpc = "teardown")
    /\ [][lpc = "teardown" => lpc' = "teardown"]_vars

C10_Witness == lpc = "teardown" /\ waitCalls = 2 /\ interruptCalls = 1 /\ sessions # {}

\* C11: when the first drain wait of the shutdown sequence times out, every
\* session registered at that moment has been signalled by interrupt_all
\* when the re-wait begins, whatever stage of execute_session it is in.
C11_TimeoutInterruptsEveryone ==
    [][(lpc = "wait1" /\ lpc' = "wait2") => \A i \in sessions : interrupted'[i]]_vars

\* C12: interrupt_all signals exactly the registered sessions that have a
\* live streamer, returns how many it signalled, and leaves the registered
\* sessions, their streamers and the drained signal as they were.
C12_InterruptAllFrame ==
    [][(InterruptAll \/ (lpc = "wait1" /\ lpc' = "wait2"))
          => /\ \A i \in Ids :
                   interrupted'[i] = (interrupted[i] \/ (i \in sessions /\ streamer[i]))
             /\ icount' = Cardinality({i \in sessions : streamer[i]})
             /\ sessions' = sessions
             /\ streamer' = streamer
             /\ drain_event' = drain_event
      ]_vars

C12_Witness ==
    /\ last = "interrupt_all"
    /\ icount = 1
    /\ \E i, j \in sessions : streamer[i] /\ interrupted[i] /\ ~streamer[j] /\ ~interrupted[j]

\* C13: recover_orphaned_sessions turns every created row into failed,
\* leaves every other row and every state blob as it was, returns the number
\* of rows it changed, and leaves no row in status created.
C13_RecoveryFailsOrphansOnly ==
    [][Startup
          => /\ \A i \in Ids :
                   status'[i] = IF status[i] = CREATED THEN FAILED ELSE status[i]
             /\ blob' = blob
             /\ tmp' = tmp
             /\ recovered' = Cardinality({i \in Ids : status[i] # status'[i]})
             /\ \A i \in Ids : status'[i] # CREATED
      ]_vars

C13_Witness ==
    /\ lpc = "serving"
    /\ crashes > 0
    /\ recovered = 1
    /\ \E i \in Ids : status[i] = FAILED /\ pc[i] = "dead"

C16_InterruptCommitsExportedOutcome ==
    \A id \in Ids :
        /\ (path[id] = "interrupt" /\ exported[id] # NoState)
              => /\ commitCalls[id] = 1
                 /\ cstatus[id] = IF is_deferred[id] THEN AWAITING_TOOL_RESULTS ELSE COMMITTED
        /\ (path[id] = "interrupt" /\ exported[id] = NoState /\ pc[id] = "done")
              => (result[id] = FAILED /\ blob[id] = NoBlob /\ commitCalls[id] = 0)

\* C17: when the parent's resumable state lists pending deferred requests,
\* the deferred results handed to the runtime cover every pending item, with
\* or without feedback: explicit feedback is carried as given, every other
\* approval-type item is auto-denied, every other call-type item auto-failed.
C17_DeferredResultsCoverPending ==
    (dpc = "built" /\ dresumable /\ \E t \in ToolCallIds : dmeta[t] # "absent")
        => /\ dres.present
           /\ \A t \in ToolCallIds :
                /\ dmeta[t] = "approval" =>
                      dres.approvals[t] = CASE dinter[t] = "approve" -> "approved"
                                            [] dinter[t] = "deny" -> "denied"
                                            [] OTHER -> "auto_denied"
                /\ dmeta[t] = "call" =>
                      dres.calls[t] = CASE dtools[t] = "output" -> "output"
                                        [] dtools[t] = "error" -> "error"
                                        [] OTHER -> "auto_failed"

\* C18: a failing event sink does not fail the run: no session is finalized
\* as failed because its sink raised.
C18_SinkCannotFailRun ==
    \A id \in Ids : path[id] = "sink_error" => status[id] # FAILED

\* C19: a session created with no parent and no explicit conversation id has
\* its own session id as conversation id, one created with a parent and no
\* explicit conversation id has its parent's, one created with an explicit
\* conversation id has that id, and the conversation id of every session row
\* names a conversation row.
C19_ConversationIdentity ==
    \A id \in Ids :
        status[id] # NoRow =>
            /\ (requested_conv[id] = NoConv /\ parent_session_id[id] = NoSession)
                    => conversation_id[id] = id
            /\ (requested_conv[id] = NoConv /\ parent_session_id[id] # NoSession)
                    => conversation_id[id] = conversation_id[parent_session_id[id]]
            /\ requested_conv[id] # NoConv => conversation_id[id] = requested_conv[id]
            /\ conversation_id[id] \in conversations

\* A continuation of a forked session is stored: it has the fork's
\* conversation id, which is neither session's id.
C19_Witness ==
    \E id \in Ids :
        /\ status[id] # NoRow
        /\ requested_conv[id] = NoConv
        /\ parent_session_id[id] # NoSession
        /\ conversation_id[id] = ForkConv
        /\ cpc = "returned"

\* C20: every step of create_session persists the new session row (status
\* created) together with its conversation row or persists nothing, and a call
\* whose parent has no row changes no table and never gets past its commit.
C20_CreateIsAtomic ==
    /\ [][\A id \in Ids :
            (status[id] = NoRow /\ status'[id] # NoRow)
                => (status'[id] = CREATED /\ conversation_id'[id] \in conversations')]_vars
    /\ [][conversations' # conversations
            => \E id \in Ids : /\ status[id] = NoRow
                               /\ status'[id] = CREATED
                               /\ conversations' = conversations \cup {conversation_id'[id]}]_vars
    /\ [][(cpc \in {"resolve", "lookup", "commit"} /\ ~ParentKeyHolds(cparent))
            => /\ status' = status
               /\ conversations' = conversations
               /\ cpc' \notin {"refresh", "returned"}]_vars

\* A fork that names a parent without a row was rolled back at its commit,
\* with its new conversation row pending.
C20_Witness ==
    /\ cpc = "raised"
    /\ ~ParentKeyHolds(cparent)
    /\ cexplicit # NoConv
    /\ cpending
    /\ cconv \notin conversations

\* C21: commit_session called with status created, failed or archived raises
\* and has no effect: the call goes straight to its raise, and until it has
\* raised no blob is written or staged, the row keeps its status and the
\* session its place in the registry.
C21_RejectedCommitHasNoEffect ==
    /\ [][\A id \in Ids :
            (pc[id] \in NoCallInFlight /\ pc'[id] \notin NoCallInFlight
                /\ cstatus'[id] \in {CREATED, FAILED, ARCHIVED})
                => /\ pc'[id] = "c_raised"
                   /\ blob' = blob /\ tmp' = tmp /\ status' = status
                   /\ sessions' = sessions]_vars
    /\ [][\A id \in Ids :
            (pc[id] = "c_raised" /\ cstatus[id] \in {CREATED, FAILED, ARCHIVED})
                => /\ pc'[id] \in {"c_raised", "raised"}
                   /\ blob'[id] = blob[id] /\ tmp'[id] = tmp[id]
                   /\ status'[id] = status[id]
                   /\ ((id \in sessions') <=> (id \in sessions))]_vars

\* A registered session whose commit with status failed is raising: no blob,
\* row still created, still registered.
C21_Witness ==
    \E id \in Ids :
        /\ pc[id] = "c_raised"
        /\ path[id] = "direct"
        /\ cstatus[id] = FAILED
        /\ id \in sessions
        /\ status[id] = CREATED
        /\ blob[id] = NoBlob

\* C22: fail_session never writes, changes or deletes the blob or a staged
\* file, takes the session out of the registry only when the row already
\* reads failed, leaves row and registry alone when it raises, and returns
\* with the row failed and the session unregistered.
C22_FailSessionFrame ==
    /\ [][\A id \in Ids :
            pc[id] \in {"f_update", "f_dbcommit", "f_unreg"}
                => (blob'[id] = blob[id] /\ tmp'[id] = tmp[id])]_vars
    /\ [][\A id \in Ids :
            (pc[id] \in {"f_update", "f_dbcommit", "f_unreg"}
                /\ id \in sessions /\ id \notin sessions')
                => status[id] = FAILED]_vars
    /\ [][\A id \in Ids :
            (pc[id] \in {"f_update", "f_dbcommit", "f_unreg"} /\ pc'[id] = "raised")
                => /\ ((id \in sessions') <=> (id \in sessions))
                   /\ status'[id] = status[id]]_vars
    /\ [][\A id \in Ids :
            (pc[id] \in {"f_update", "f_dbcommit", "f_unreg"} /\ pc'[id] = "done")
                => (status'[id] = FAILED /\ id \notin sessions')]_vars

\* fail_session returned for a session whose blob had been written by a
\* commit that then raised: the blob is still there, the row reads failed.
C22_Witness ==
    \E id \in Ids :
        /\ pc[id] = "done"
        /\ path[id] = "direct"
        /\ result[id] = FAILED
        /\ status[id] = FAILED
        /\ blob[id] # NoBlob
        /\ id \notin sessions
        /\ last = "unregister"

\* C23: once a session's state blob has been written its content never
\* changes: no later operation on the session writes it again.
C23_BlobNeverRewritten ==
    [][\A id \in Ids : blob[id] # NoBlob => blob'[id] = blob[id]]_vars

\* C24: for a conflict-free input with a preset, resolve_config returns the
\* project list of the first of request, override environment, preset
\* environment and parent that supplies one, else the empty list; a workspace
\* reference stands for the workspace's projects in their order (and for
\* WorkspaceNotFoundError when the workspace has no row).
C24_ProjectPriority ==
    cfgpc = "resolved" =>
        LET c == cfgIn
            Both(ws, proj) == ws # None /\ proj # NoList
            Supplies(ws, proj) == ws # None \/ proj # NoList
            src == IF Supplies(c.workspace_id, c.project_ids)
                       THEN <<c.workspace_id, c.project_ids>>
                   ELSE IF c.override /\ c.ov_environment
                            /\ Supplies(c.ove_workspace_id, c.ove_project_ids)
                       THEN <<c.ove_workspace_id, c.ove_project_ids>>
                   ELSE IF Supplies(c.pre_workspace_id, c.pre_project_ids)
                       THEN <<c.pre_workspace_id, c.pre_project_ids>>
                   ELSE IF c.parent_project_ids # NoList
                       THEN <<None, c.parent_project_ids>>
                   ELSE <<None, <<>>>>
        IN  (/\ c.preset_found
             /\ ~Both(c.workspace_id, c.project_ids)
             /\ ~Both(c.ove_workspace_id, c.ove_project_ids)
             /\ ~Both(c.pre_workspace_id, c.pre_project_ids))
                => IF src[1] = "w2" THEN cfgOut.kind = "workspace_not_found"
                   ELSE /\ cfgOut.kind = "ok"
                        /\ cfgOut.project_ids = IF src[1] = "w1" THEN <<"a", "b">> ELSE src[2]

\* The request and an override environment that is present supply nothing,
\* the preset names a workspace, the parent has a list: the workspace's
\* projects are returned.
C24_Witness ==
    /\ cfgpc = "resolved"
    /\ cfgIn.workspace_id = None /\ cfgIn.project_ids = NoList
    /\ cfgIn.ov_environment
    /\ cfgIn.pre_workspace_id = "w1"
    /\ cfgIn.parent_project_ids # NoList
    /\ cfgOut.project_ids = <<"a", "b">>

\* C25: with a preset loaded, a level (request, override environment, preset
\* environment) that specifies both a workspace reference and a project list
\* makes resolve_config fail with a conflict naming that level, whatever the
\* other levels supply (of several conflicting levels the highest is named).
C25_ConflictAtAnyLevelRaises ==
    (cfgpc = "resolved" /\ cfgIn.preset_found) =>
        LET c == cfgIn
            req == c.workspace_id # None /\ c.project_ids # NoList
            ove == /\ c.override /\ c.ov_environment
                   /\ c.ove_workspace_id # None /\ c.ove_project_ids # NoList
            pre == c.pre_workspace_id # None /\ c.pre_project_ids # NoList
        IN  /\ req => (cfgOut.kind = "conflict" /\ cfgOut.level = "request")
            /\ (ove /\ ~req) => (cfgOut.kind = "conflict" /\ cfgOut.level = "override")
            /\ (pre /\ ~ove /\ ~req) => (cfgOut.kind = "conflict" /\ cfgOut.level = "preset")

\* C26: in a returned configuration every field is the override's value when
\* the override explicitly sets it and the preset's value when it does not,
\* also when the override sets other fields of the same section.
C26_FieldLevelMerge ==
    (cfgpc = "resolved" /\ cfgOut.kind = "ok") =>
        LET c == cfgIn
            Merged(present, o, p) == IF present /\ o # None THEN o ELSE p
            env == c.override /\ c.ov_environment
        IN  /\ cfgOut.model = Merged(c.override, c.ov_model, PresetValue)
            /\ cfgOut.system_prompt = Merged(c.override, c.ov_system_prompt, PresetValue)
            /\ cfgOut.toolsets = Merged(c.override, c.ov_toolsets, PresetValue)
            /\ cfgOut.subagents = Merged(c.override, c.ov_subagents, PresetValue)
            /\ cfgOut.container_id = Merged(env, c.ove_container_id, c.pre_container_id)
            /\ cfgOut.container_workdir
                    = Merged(env, c.ove_container_workdir, c.pre_container_workdir)
            /\ cfgOut.shell_mode = Merged(env, c.ove_shell_mode, c.pre_shell_mode)

C28_ReadFollowsLastWrite ==
    \A t \in StoreTargets :
        LET found == IF expect[t] = NoState THEN NotFound ELSE Outcome("state", expect[t])
        IN /\ LocalReadState(files, t[1], t[2]) = found
           /\ S3ReadState(objects, t[1], t[2]) = found
           /\ LocalExists(files, t[1], t[2]) = Answer(expect[t] # NoState)
           /\ S3Exists(objects, t[1], t[2]) = Answer(expect[t] # NoState)
           /\ (sout.op = "read" /\ t = <<sout.prefix, sout.id>>) =>
                  sout.local = found /\ sout.s3 = found
           /\ (sout.op = "exists" /\ t = <<sout.prefix, sout.id>>) =>
                  sout.local = Answer(expect[t] # NoState) /\ sout.s3 = Answer(expect[t] # NoState)

\* A delete under one prefix, after writes of different states to the same
\* id under both prefixes and to another id.
C28_Witness ==
    /\ sout.op = "delete" /\ sout.prefix = "alice" /\ sout.id = "s1"
    /\ expect[<<None, "s1">>] # NoState
    /\ expect[<<"alice", "s2">>] # NoState
    /\ expect[<<None, "s1">>] # expect[<<"alice", "s2">>]
    /\ files[LocalDir(None, "s1")].json # NoFile
    /\ files[LocalDir("alice", "s1")].json = NoFile

\* C29: a delete raises no error on either store, whether or not state
\* exists for the id, and a delete that follows a delete of the same prefix
\* and id leaves both stores exactly as the first one left them.
C29_DeleteIsIdempotent ==
    [][sout'.op = "delete" =>
          /\ sout'.local = Done
          /\ sout'.s3 = Done
          /\ sout'.again => files' = files /\ objects' = objects
      ]_vars

\* The second of two deletes of one id, while another id still has state.
C29_Witness ==
    /\ sout.op = "delete"
    /\ sout.again
    /\ sout.local = Done
    /\ \E t \in StoreTargets : expect[t] # NoState

\* C30: when the same write, read, exists and delete calls are made on the
\* filesystem store and on the S3 store, every call gives the same result
\* on both: the same state read, the same exists answer, not-found for the
\* same reads, and after every call each prefix and id reads the same on
\* both.
C30_BackendsAgree ==
    /\ sout.local = sout.s3
    /\ \A t \in StoreTargets :
        /\ LocalReadState(files, t[1], t[2]) = S3ReadState(objects, t[1], t[2])
        /\ LocalExists(files, t[1], t[2]) = S3Exists(objects, t[1], t[2])

\* A read that fails with not-found on both stores, while the same id under
\* the other prefix and another id under the same prefix have state.
C30_Witness ==
    /\ sout.op = "read"
    /\ sout.local = NotFound
    /\ sout.s3 = NotFound
    /\ \E t1, t2 \in StoreTargets :
        /\ t1[1] # sout.prefix /\ t1[2] = sout.id
        /\ t2[1] = sout.prefix /\ t2[2] # sout.id
        /\ objects[ObjectKey(t1[1], t1[2])] # NoFile
        /\ files[LocalDir(t2[1], t2[2])].json # NoFile

C39_SetupFailureFrame ==
    /\ [][\A id \in Ids :
            (pc[id] = "created" /\ pc'[id] \notin {"created", "registered"})
                => /\ pc'[id] = "raised"
                   /\ sessions' = sessions
                   /\ streamer' = streamer
                   /\ interrupted' = interrupted
                   /\ drain_event' = drain_event
                   /\ shutting_down' = shutting_down
                   /\ blob' = blob
                   /\ tmp' = tmp
                   /\ status' = status
                   /\ commitCalls' = commitCalls
                   /\ failCalls' = failCalls]_vars
    /\ [](\A id \in Ids :
            (pc[id] = "raised" /\ path[id] = "none")
                => /\ id \notin sessions
                   /\ blob[id] = NoBlob /\ ~tmp[id]
                   /\ status[id] = CREATED
                   /\ commitCalls[id] = 0 /\ failCalls[id] = 0)

\* A setup that raised while the registry was accepting registrations.
C39_Witness ==
    \E id \in Ids :
        /\ pc[id] = "raised" /\ path[id] = "none"
        /\ ~shutting_down /\ last # "refused"
        /\ status[id] = CREATED /\ sessions = {}

\* C36: once a session row reads committed, awaiting_tool_results or failed,
\* no later step changes its status.
C36_TerminalStatusIsAbsorbing ==
    [][\A id \in Ids :
        status[id] \in {COMMITTED, AWAITING_TOOL_RESULTS, FAILED}
            => status'[id] = status[id]]_vars

\* C31: after any sequence of create_preset, update_preset and delete_preset
\* calls, each run to completion before the next starts, at most one preset is
\* the default, and a call that created or updated a preset with is_default
\* true and returned leaves that preset as the only default.
C31_SequentialSingleDefault ==
    /\ Cardinality(Defaults(presets)) <= 1
    /\ \A t \in PresetCalls :
        (ppc[t] = "returned" /\ parg[t].op \in {"create", "update"} /\ parg[t].flag = "yes")
            => Defaults(presets) = {parg[t].id}

\* an update made p2 the default while another preset was the default
C31_Witness ==
    /\ ppc[FirstCall] = "returned"
    /\ parg[FirstCall].op = "update"
    /\ parg[FirstCall].flag = "yes"
    /\ psnap[FirstCall] # {}
    /\ parg[FirstCall].id \notin psnap[FirstCall]

\* C40: when two create_preset or update_preset calls that both set is_default
\* run with their database steps interleaved, at most one preset is the
\* default once both have completed.
C40_RacingSingleDefault ==
    (\A t \in PresetCalls : PresetCallEnded(t)) => Cardinality(Defaults(presets)) <= 1

C37_RegisteredEventuallyUnregistered ==
    \A id \in Ids : (id \in sessions) ~> (id \notin sessions)

\* C35: when several of the levels request, override environment and preset
\* environment each specify both a workspace reference and a project list,
\* resolve_config fails with the conflict error that names the first of them
\* in the order request, override, preset.
C35_FirstConflictingLevelNamed ==
    (cfgpc = "resolved" /\ cfgIn.preset_found) =>
        LET c == cfgIn
            conflicting ==
                {l \in {"request", "override", "preset"} :
                    \/ l = "request" /\ c.workspace_id # None /\ c.project_ids # NoList
                    \/ /\ l = "override" /\ c.override /\ c.ov_environment
                       /\ c.ove_workspace_id # None /\ c.ove_project_ids # NoList
                    \/ l = "preset" /\ c.pre_workspace_id # None /\ c.pre_project_ids # NoList}
            named == IF "request" \in conflicting THEN "request"
                     ELSE IF "override" \in conflicting THEN "override" ELSE "preset"
        IN  Cardinality(conflicting) >= 2 => (cfgOut.kind = "conflict" /\ cfgOut.level = named)
====
